---- MODULE Spec2Model ----
(***************************************************************************)
(* A model of the content-localization engine of zGetContentByXpath.py:    *)
(* html.fromstring, the structural cleaner, the candidate scorer, the      *)
(* candidate selector, the locator generator and the /extract endpoint.    *)
(*                                                                         *)
(* Encoding of strings.  Attribute values and locators are TLA+ strings,   *)
(* searched with a real substring search.  Text is a sequence of tokens;   *)
(* a token is either a literal string or a prose token "<proseN>" that     *)
(* stands for N characters of neutral prose in which no keyword and no     *)
(* pattern occurs.  A CJK word of the source is written as its pinyin in   *)
(* braces ("{banquansuoyou}"), the module's character set being ASCII.     *)
(* Elements carry text only before their first child (no tail text).       *)
(***************************************************************************)
EXTENDS Integers, Sequences, FiniteSets, TLC

VARIABLES
    input,      \* the html_content string handed to the program
    pc,         \* position of the running call
    tree,       \* element records, indexed in document order
    parent,     \* parent[n]: parent element of n, 0 when n has none
    page_tree,  \* the element html.fromstring returned
    body,       \* cleaned_body of find_article_container
    selected,   \* main_container of extract_content_to_markdown (0: none yet)
    result,     \* the record extract_content_to_markdown returned
    http,       \* the call was made by the /extract handler
    caught,     \* the except clause of extract_content_to_markdown ran
    response,   \* what the /extract endpoint answered
    arg,        \* the element a directly called helper was given
    ret,        \* the locator generate_xpath returned to a direct call
    score_ret,  \* the score calculate_content_container_score returned to a direct call
    walk,       \* the locals of the upward walk of find_list_container
    drivers,    \* WebDriverPool.drivers: the queue of idle drivers, head first
    holding,    \* holding[c]: the drivers client thread c got and has not returned
    client_pc,  \* client_pc[c]: what client thread c is doing with the pool
    closer,     \* the thread running close_all: its position and its local driver
    quit_called \* the drivers on which quit() has been called

\* the state of one extraction call
page_vars == <<input, pc, http, tree, parent, page_tree, body, selected, result, caught,
               response, arg, ret, score_ret>>

\* the state of a WebDriverPool and of the threads using it
pool_vars == <<drivers, holding, client_pc, closer, quit_called>>

vars == <<input, pc, http, tree, parent, page_tree, body, selected, result, caught,
          response, arg, ret, score_ret, walk, drivers, holding, client_pc, closer,
          quit_called>>

(***************************************************************************)
(* Strings                                                                 *)
(***************************************************************************)
Contains(s, k) ==
    \E i \in 1..(Len(s) - Len(k) + 1) : SubSeq(s, i, i + Len(k) - 1) = k

UpperToLower ==
    ("A" :> "a") @@ ("B" :> "b") @@ ("C" :> "c") @@ ("D" :> "d") @@ ("E" :> "e") @@
    ("F" :> "f") @@ ("G" :> "g") @@ ("H" :> "h") @@ ("I" :> "i") @@ ("J" :> "j") @@
    ("K" :> "k") @@ ("L" :> "l") @@ ("M" :> "m") @@ ("N" :> "n") @@ ("O" :> "o") @@
    ("P" :> "p") @@ ("Q" :> "q") @@ ("R" :> "r") @@ ("S" :> "s") @@ ("T" :> "t") @@
    ("U" :> "u") @@ ("V" :> "v") @@ ("W" :> "w") @@ ("X" :> "x") @@ ("Y" :> "y") @@
    ("Z" :> "z")

RECURSIVE Lower(_)
Lower(s) ==
    IF s = "" THEN ""
    ELSE LET c == SubSeq(s, 1, 1)
         IN  (IF c \in DOMAIN UpperToLower THEN UpperToLower[c] ELSE c)
                 \o Lower(SubSeq(s, 2, Len(s)))

IsSpace(c) == c \in {" ", "\t", "\n"}

Strip(s) ==
    LET keep == {i \in 1..Len(s) : ~IsSpace(SubSeq(s, i, i))}
    IN  IF keep = {} THEN ""
        ELSE SubSeq(s, CHOOSE i \in keep : \A j \in keep : i <= j,
                       CHOOSE i \in keep : \A j \in keep : j <= i)

Digits == {"0", "1", "2", "3", "4", "5", "6", "7", "8", "9"}

DigitStr == <<"0", "1", "2", "3", "4", "5", "6", "7", "8", "9">>

RECURSIVE IndexStr(_)
\* str(i) for an index i >= 1
IndexStr(i) ==
    IF i < 10 THEN DigitStr[i + 1] ELSE IndexStr(i \div 10) \o DigitStr[(i % 10) + 1]

RECURSIVE SumSeq(_)
SumSeq(q) == IF q = <<>> THEN 0 ELSE Head(q) + SumSeq(Tail(q))

RECURSIVE Flatten(_)
Flatten(qq) == IF qq = <<>> THEN <<>> ELSE Head(qq) \o Flatten(Tail(qq))

(***************************************************************************)
(* Elements                                                                *)
(***************************************************************************)
El(tag, attrs, text, par) == [tag |-> tag, attrs |-> attrs, text |-> text, par |-> par]

NoAttrs == [a \in {} |-> ""]

Get(e, name) == IF name \in DOMAIN e.attrs THEN e.attrs[name] ELSE ""

(***************************************************************************)
(* Text tokens.  len(text.strip()) of a token is its length below; prose   *)
(* tokens stand for that many characters.                                  *)
(***************************************************************************)
ProseLen == ("<prose600>" :> 600) @@ ("<prose1200>" :> 1200)

\* a "{xxxx}" group is one character
TokLen(t) ==
    IF t \in DOMAIN ProseLen THEN ProseLen[t]
    ELSE Len(t) - 5 * Cardinality({i \in 1..Len(t) : SubSeq(t, i, i) = "{"})

\* keyword in token: the substring test of the source on a literal token
TokContains(t, k) == t \notin DOMAIN ProseLen /\ Contains(t, k)

(***************************************************************************)
(* Input documents: a body holding up to MaxBlocks blocks, each block one  *)
(* of the subtrees below (par is the position of the parent inside the    *)
(* block, 0 for the block's root).                                         *)
(***************************************************************************)
MaxBlocks == 2

Dated == <<"<prose1200>", "2024-01-05 report.pdf">>

Noted == <<"<prose600>", "2024-01-05 report.pdf">>

\* two dates, a notice, a clause mark, an index number and an attachment
Statute ==
    <<"<prose1200>",
      "2024-01-05 2024-02-06 {901a}{77e5} {7b2c}{4e09}{6761} {7d22}{5f15}{53f7} report.pdf">>

\* "you are here" followed by three words of the header vocabulary
Breadcrumb == <<"{5f53}{524d}{4f4d}{7f6e} Home Login Search", "<prose600>">>

\* the paragraphs and images of the gallery block
GalleryParagraphs == 21

GalleryImages == 51

Block ==
    [nav        |-> << El("nav", NoAttrs, <<"Home Login">>, 0) >>,
     footer     |-> << El("footer", NoAttrs, <<"Copyright 2024 All rights reserved">>, 0) >>,
     footer_box |-> << El("footer", NoAttrs, <<"Copyright 2024 All rights reserved">>, 0),
                       El("div", ("role" :> "viewlist"), <<>>, 1),
                       El("p", NoAttrs, Dated, 2) >>,
     article    |-> << El("article", ("class" :> "content"), <<>>, 0),
                       El("h1", NoAttrs, <<"T">>, 1),
                       El("p", NoAttrs, <<"<prose600>">>, 1) >>,
     protected  |-> << El("div", ("id" :> "content") @@ ("class" :> "top-bar"), <<>>, 0),
                       El("a", NoAttrs, <<"Home">>, 1) >>,
     header_div |-> << El("div", ("class" :> "Header"), <<"Home Login">>, 0) >>,
     plain      |-> << El("div", NoAttrs, <<>>, 0),
                       El("p", NoAttrs, <<"<prose600>">>, 1) >>,
     nested     |-> << El("div", ("class" :> "news-detail-info"), <<>>, 0),
                       El("div", ("class" :> "article-content-text"), <<>>, 1),
                       El("p", NoAttrs, Dated, 2) >>,
     rich       |-> << El("section", ("role" :> "viewlist") @@ ("aria-label" :> "results"), <<>>, 0),
                       El("p", NoAttrs, Dated, 1) >>,
     sidebar    |-> << El("div", ("id" :> "ad-box") @@ ("class" :> "sidebar"), <<>>, 0),
                       El("a", NoAttrs, <<"T">>, 1) >>,
     para       |-> << El("p", NoAttrs, <<"<prose600>">>, 0) >>,
     leafdiv    |-> << El("div", ("id" :> "story"), <<"<prose600>">>, 0) >>,
     complementary |->
                    << El("aside", NoAttrs, <<>>, 0),
                       El("div", ("role" :> "navigation"), <<>>, 1),
                       El("a", NoAttrs, <<"Home">>, 2) >>,
     desktop    |-> << El("div", ("class" :> "desktop"), <<>>, 0),
                       El("p", NoAttrs, <<"<prose600>">>, 1) >>,
     triple     |-> << El("div", ("class" :> "news-detail-info"), <<>>, 0),
                       El("div", ("class" :> "story-info") @@ ("role" :> "main"), <<>>, 1),
                       El("div", ("class" :> "news-text") @@ ("role" :> "article"), <<>>, 2),
                       El("p", NoAttrs, Noted, 3),
                       El("p", NoAttrs, <<"<prose600>">>, 2),
                       El("p", NoAttrs, <<"<prose1200>">>, 1) >>,
     guarded    |-> << El("div", ("role" :> "viewlist"), <<>>, 0),
                       El("div", ("role" :> "viewlist"), <<>>, 1),
                       El("p", NoAttrs, Noted, 2),
                       El("p", NoAttrs, <<"<prose1200>">>, 1) >>,
     shallow    |-> << El("div", NoAttrs, <<>>, 0),
                       El("div", NoAttrs, <<>>, 1),
                       El("p", NoAttrs, <<"<prose600>">>, 2),
                       El("p", NoAttrs, <<"<prose1200>">>, 1) >>,
     shielded   |-> << El("div", ("class" :> "bg-fff nav"), <<>>, 0),
                       El("a", NoAttrs, <<"Home">>, 1) >>,
     breadcrumb |-> << El("div", NoAttrs, <<>>, 0),
                       El("p", NoAttrs, Breadcrumb, 1) >>,
     wrapped    |-> << El("div", ("id" :> "story"), <<>>, 0),
                       El("div", NoAttrs, <<>>, 1),
                       El("div", NoAttrs, <<>>, 2),
                       El("p", NoAttrs, <<"<prose600>">>, 3) >>,
     menu_text  |-> << El("div", NoAttrs, <<"Home Login Search">>, 0) >>,
     mixed      |-> << El("div", NoAttrs, <<"Home Login Copyright All rights reserved">>, 0) >>,
     gallery    |-> << El("div", ("class" :> "news-detail-info-content") @@ ("role" :> "viewlist"),
                          <<>>, 0),
                       El("p", NoAttrs, Statute, 1) >>
                    \o [i \in 1..(GalleryParagraphs - 1) |-> El("p", NoAttrs, <<>>, 1)]
                    \o [i \in 1..GalleryImages |-> El("img", NoAttrs, <<>>, 1)]]

BlockNames == DOMAIN Block

\* nav, footer and article occur in the scenario document only
ScenarioBlocks == {"nav", "article", "footer"}

\* the documents built for one case each
Fixtures ==
    {<<"complementary", "plain">>, <<"desktop">>, <<"triple">>, <<"guarded">>, <<"shallow">>,
     <<"shielded">>, <<"shielded", "nested">>, <<"breadcrumb">>, <<"menu_text">>, <<"mixed">>,
     <<"gallery">>, <<"wrapped">>, <<"para">>, <<"leafdiv">>}

\* the blocks that occur in the fixtures only
FixtureBlocks ==
    {"complementary", "desktop", "triple", "guarded", "shallow", "shielded", "breadcrumb",
     "menu_text", "mixed", "gallery", "wrapped", "para", "leafdiv"}

BlockSeqs ==
    UNION {[1..k -> BlockNames \ (ScenarioBlocks \cup FixtureBlocks)] : k \in 0..MaxBlocks}

\* <body><nav>Home Login</nav><article class="content"><h1>T</h1><p>...</p></article>
\* <footer>Copyright 2024 All rights reserved</footer></body>
\* as a fragment and as a full document
Scenario ==
    {[kind |-> "html", full |-> f, bodyClass |-> "", blocks |-> <<"nav", "article", "footer">>] :
        f \in BOOLEAN}

\* html_content: "" and whitespace, or a document.  full: the text starts
\* with <html or <!doctype; bodyClass: the class attribute of <body>.
Inputs ==
    {[kind |-> "text", raw |-> r] : r \in {"", " \n "}}
    \cup {[kind |-> "html", full |-> f, bodyClass |-> c, blocks |-> b] :
            f \in BOOLEAN, c \in {"", "page"}, b \in BlockSeqs}
    \cup Scenario
    \cup {[kind |-> "html", full |-> f, bodyClass |-> "", blocks |-> b] :
            f \in BOOLEAN, b \in Fixtures}

(***************************************************************************)
(* html.fromstring (lxml): the element tree of a document, elements        *)
(* numbered in document order, 1 the html element and 2 the body.          *)
(***************************************************************************)
block_tags ==
    {"address", "blockquote", "center", "dir", "div", "dl", "fieldset", "form",
     "h1", "h2", "h3", "h4", "h5", "h6", "hr", "isindex", "menu", "noframes",
     "noscript", "ol", "p", "pre", "table", "ul", "dd", "dt", "frameset", "li",
     "tbody", "td", "tfoot", "th", "thead", "tr"}

RECURSIVE Place(_, _)
\* the elements of the blocks bs, their par made absolute, the first at index base + 1
Place(bs, base) ==
    IF bs = <<>> THEN <<>>
    ELSE LET b == Block[Head(bs)]
             here == [i \in 1..Len(b) |->
                        [b[i] EXCEPT !.par = IF b[i].par = 0 THEN 2 ELSE base + b[i].par]]
         IN  here \o Place(Tail(bs), base + Len(b))

document_fromstring(d) ==
    << El("html", NoAttrs, <<>>, 0),
       El("body", IF d.bodyClass = "" THEN NoAttrs ELSE ("class" :> d.bodyClass), <<>>, 1) >>
    \o Place(d.blocks, 2)

\* what fromstring hands back of the parsed document doc: the document, the
\* only element of the body, or the body renamed to div or span
Rooted(doc, is_full_html) ==
    IF is_full_html THEN [tree |-> doc, root |-> 1]
    ELSE IF Cardinality({n \in 1..Len(doc) : doc[n].par = 2}) = 1
         THEN [tree |-> doc, root |-> 3]
    ELSE [tree |-> [doc EXCEPT ![2].tag =
                        IF \E n \in 3..Len(doc) : doc[n].tag \in block_tags
                        THEN "div" ELSE "span"],
          root |-> 2]

\* lxml.html.fromstring: the tree and the element handed back
fromstring(d) == Rooted(document_fromstring(d), d.full)

\* "Document is empty": what the parser raises on text without any markup
ParserError(i) == i.kind = "text" /\ Strip(i.raw) = ""

\* variant: the blank check without strip()
IsBlankUnstripped(i) == i.kind = "text" /\ i.raw = ""

\* not input_data.html_content.strip()
IsBlank(i) == i.kind = "text" /\ Strip(i.raw) = ""

(***************************************************************************)
(* Tree navigation over (tree, parent)                                     *)
(***************************************************************************)
Nodes(t) == 1..Len(t)

RECURSIVE Ancestors(_, _)
Ancestors(par, n) == IF par[n] = 0 THEN {} ELSE {par[n]} \cup Ancestors(par, par[n])

\* .//*  : the element descendants of n
Descendants(t, par, n) == {m \in Nodes(t) : n \in Ancestors(par, m)}

\* //tag : the elements of the whole document body belongs to
RECURSIVE RootOf(_, _)
RootOf(par, n) == IF par[n] = 0 THEN n ELSE RootOf(par, par[n])

InDocument(t, par, b) == {m \in Nodes(t) : RootOf(par, m) = RootOf(par, b)}

ChildrenOf(t, par, n) == {m \in Nodes(t) : par[m] = n}

\* variant: the test "element is not None"
TruthyIsNotNone(t, par, n) == n # 0

\* bool(element) in lxml: an element is true iff it has child elements
Truthy(t, par, n) == ChildrenOf(t, par, n) # {}

\* element.text_content(): the text of n and of its descendants, in document order
text_content(t, par, n) ==
    Flatten([i \in 1..Len(t) |->
               IF i = n \/ n \in Ancestors(par, i) THEN t[i].text ELSE <<>>])

\* len(text.strip())
TextLength(txt) == SumSeq([i \in 1..Len(txt) |-> TokLen(txt[i])])

(***************************************************************************)
(* Keyword tables of the source.  "{xxxx}" is the character with that      *)
(* code point (the CJK words of the lists).                                *)
(***************************************************************************)
header_words ==
    {"{767b}{5f55}", "{6ce8}{518c}", "{9996}{9875}", "{4e3b}{9875}",
     "{65e0}{969c}{788d}", "{653f}{52a1}", "{529e}{4e8b}", "{4e92}{52a8}",
     "{8d70}{8fdb}", "{79fb}{52a8}{7248}", "{624b}{673a}{7248}",
     "{5bfc}{822a}", "{83dc}{5355}", "{641c}{7d22}", "{5e02}{653f}{5e9c}",
     "login", "register", "home", "menu", "search", "nav"}

footer_words ==
    {"{7f51}{7ad9}{8bf4}{660e}", "{7f51}{7ad9}{6807}{8bc6}{7801}",
     "{7248}{6743}{6240}{6709}", "{4e3b}{529e}{5355}{4f4d}",
     "{627f}{529e}{5355}{4f4d}", "{6280}{672f}{652f}{6301}",
     "{8054}{7cfb}{6211}{4eec}", "{7f51}{7ad9}{5730}{56fe}",
     "{9690}{79c1}{653f}{7b56}", "{514d}{8d23}{58f0}{660e}",
     "{5907}{6848}{53f7}", "icp", "{516c}{5b89}{5907}{6848}",
     "{653f}{5e9c}{7f51}{7ad9}", "{7f51}{7ad9}{7ba1}{7406}", "copyright",
     "all rights reserved", "powered by", "designed by"}

position_phrases ==
    {"{5f53}{524d}{4f4d}{7f6e}", "{5f53}{524d}{7684}{4f4d}{7f6e}"}

pattern_time ==
    {"{53d1}{5e03}{65f6}{95f4}", "{66f4}{65b0}{65e5}{671f}",
     "{53d1}{5e03}{65e5}{671f}", "{6210}{6587}{65e5}{671f}"}

pattern_official ==
    {"{901a}{77e5}", "{516c}{544a}", "{610f}{89c1}", "{529e}{6cd5}",
     "{89c4}{5b9a}", "{63aa}{65bd}", "{65b9}{6848}", "{51b3}{5b9a}",
     "{6307}{5bfc}", "{5b9e}{65bd}"}

pattern_govinfo ==
    {"{7d22}{5f15}{53f7}", "{4e3b}{9898}{5206}{7c7b}",
     "{53d1}{6587}{673a}{5173}", "{53d1}{6587}{5b57}{53f7}",
     "{6709}{6548}{6027}"}

pattern_attachment ==
    {"{9644}{4ef6}", "{4e0b}{8f7d}", "pdf", "doc", "docx",
     "{6587}{4ef6}{4e0b}{8f7d}"}

pattern_structure ==
    {"{4e3a}{4e86}", "{6839}{636e}", "{6309}{7167}", "{4f9d}{636e}",
     "{73b0}{5c06}", "{7279}{5236}{5b9a}", "{73b0}{5370}{53d1}",
     "{8bf7}{7ed3}{5408}{5b9e}{9645}"}

pattern_news ==
    {"{8bb0}{8005}", "{62a5}{9053}", "{6d88}{606f}", "{65b0}{95fb}",
     "{91c7}{8bbf}", "{53d1}{8868}", "{520a}{767b}"}

pattern_body ==
    {"{6b63}{6587}", "{5185}{5bb9}", "{8be6}{60c5}", "{5168}{6587}",
     "{6458}{8981}", "{6982}{8ff0}"}

zh_numerals ==
    {"{4e00}", "{4e8c}", "{4e09}", "{56db}", "{4e94}", "{516d}", "{4e03}",
     "{516b}", "{4e5d}", "{5341}"}

zh_clause_ends ==
    {"{6761}", "{7ae0}", "{8282}"}

zh_di == "{7b2c}"

zh_nian == "{5e74}"

zh_yue == "{6708}"

zh_ri == "{65e5}"

strong_header_indicators ==
    {"header", "top", "navbar", "navigation", "menu-main", "site-header",
     "page-header", "banner", "topbar"}

strong_footer_indicators ==
    {"footer", "bottom", "site-footer", "page-footer", "footerpc", "wapfooter",
     "g-bottom"}

strong_interference_keywords ==
    {"header", "footer", "nav", "navigation", "menu", "menubar", "topbar",
     "bottom", "sidebar", "aside", "banner", "ad", "advertisement"}

positive_keywords ==
    {"content", "main", "article", "news", "data", "info", "detail", "result",
     "list", "body", "text", "container"}

interference_keywords ==
    {"header", "footer", "nav", "navigation", "menu", "menubar", "topbar",
     "bottom", "sidebar", "aside", "banner", "ad"}

important_indicators ==
    {"content", "main", "article", "detail", "news", "info", "bg-fff",
     "bg-white", "wrapper", "body"}

(***************************************************************************)
(* Facts about the text tokens of the input documents, computed once per   *)
(* token by the searches of the source.                                    *)
(***************************************************************************)
AllElems == UNION {{Block[b][i] : i \in 1..Len(Block[b])} : b \in BlockNames}

Vocabulary == UNION {{e.text[i] : i \in 1..Len(e.text)} : e \in AllElems}

TextKeywords == header_words \cup footer_words \cup position_phrases

\* the keywords k with: k in token.lower()
KeywordsInToken == [t \in Vocabulary |-> {k \in TextKeywords : TokContains(Lower(t), k)}]

\* keyword in text_content.lower()
KeywordIn(txt, k) == \E i \in 1..Len(txt) : k \in KeywordsInToken[txt[i]]

DigitAt(s, i) == i <= Len(s) /\ SubSeq(s, i, i) \in Digits

DigitsAt(s, i, n) == \A j \in 0..(n - 1) : DigitAt(s, i + j)

At(s, i, w) == i + Len(w) - 1 <= Len(s) /\ SubSeq(s, i, i + Len(w) - 1) = w

\* \d{4}-\d{2}-\d{2}
IsoDate(s) ==
    \E i \in 1..Len(s) :
        /\ DigitsAt(s, i, 4) /\ At(s, i + 4, "-")
        /\ DigitsAt(s, i + 5, 2) /\ At(s, i + 7, "-") /\ DigitsAt(s, i + 8, 2)

\* \d{4}/\d{1,2}/\d{1,2}
SlashDate(s) ==
    \E i \in 1..Len(s), a \in 1..2 :
        /\ DigitsAt(s, i, 4) /\ At(s, i + 4, "/")
        /\ DigitsAt(s, i + 5, a) /\ At(s, i + 5 + a, "/") /\ DigitAt(s, i + 6 + a)

\* \d{4}<nian>\d{1,2}<yue>\d{1,2}<ri>
ZhDate(s) ==
    \E i \in 1..Len(s), a \in 1..2, b \in 1..2 :
        /\ DigitsAt(s, i, 4) /\ At(s, i + 4, zh_nian)
        /\ DigitsAt(s, i + 10, a) /\ At(s, i + 10 + a, zh_yue)
        /\ DigitsAt(s, i + 16 + a, b) /\ At(s, i + 16 + a + b, zh_ri)

RECURSIVE ClauseRest(_, _, _)
\* [numerals]+ then one of the clause words, n numerals read so far, at position j
ClauseRest(s, j, n) ==
    IF DigitAt(s, j) THEN ClauseRest(s, j + 1, n + 1)
    ELSE IF \E z \in zh_numerals : At(s, j, z) THEN ClauseRest(s, j + 6, n + 1)
    ELSE n >= 1 /\ \E z \in zh_clause_ends : At(s, j, z)

ClauseMark(s) == \E i \in 1..Len(s) : At(s, i, zh_di) /\ ClauseRest(s, i + 6, 0)

AnyOf(words, s) == \E w \in words : Contains(s, w)

\* content_indicators: pattern number |-> weight
content_weight == <<30, 40, 35, 25, 20, 30, 25, 20>>

\* re.findall(pattern, token) is non-empty (case-sensitive, on the raw text)
PatternMatches(p, s) ==
    CASE p = 1 -> IsoDate(s) \/ ZhDate(s) \/ SlashDate(s) \/ AnyOf(pattern_time, s)
      [] p = 2 -> AnyOf(pattern_official, s)
      [] p = 3 -> ClauseMark(s)
      [] p = 4 -> AnyOf(pattern_govinfo, s)
      [] p = 5 -> AnyOf(pattern_attachment, s)
      [] p = 6 -> AnyOf(pattern_structure, s)
      [] p = 7 -> AnyOf(pattern_news, s)
      [] p = 8 -> AnyOf(pattern_body, s)

PatternsInToken ==
    [t \in Vocabulary |->
        IF t \in DOMAIN ProseLen THEN {} ELSE {p \in 1..8 : PatternMatches(p, t)}]

PatternIn(txt, p) == \E i \in 1..Len(txt) : p \in PatternsInToken[txt[i]]

(***************************************************************************)
(* Structural cleaner                                                      *)
(***************************************************************************)
\* variant: removing an element leaves its children with its parent
DetachUnwrap(par, S) ==
    [n \in DOMAIN par |-> IF n \in S THEN 0
                          ELSE IF par[n] \in S THEN par[par[n]] ELSE par[n]]

\* parent.remove(element) for every element of S that still has a parent
Detach(par, S) == [n \in DOMAIN par |-> IF n \in S THEN 0 ELSE par[n]]

HasTag(t, S, tags) == {n \in S : t[n].tag \in tags}

\* variant: the first round without //footer
RemoveSemanticTagsKeepsFooter(t, par, b) ==
    Detach(Detach(par, HasTag(t, InDocument(t, par, b), {"header"})),
           HasTag(t, InDocument(t, par, b), {"nav"}))

\* variant: the first round with //aside and the landmark roles as well
RemoveSemanticTagsStrict(t, par, b) ==
    Detach(par, {n \in InDocument(t, par, b) :
                    \/ t[n].tag \in {"header", "footer", "nav", "aside"}
                    \/ Get(t[n], "role") \in {"navigation", "banner", "contentinfo"}})

\* first round of remove_page_level_header_footer: //header, //footer, //nav
RemoveSemanticTags(t, par, b) ==
    LET p1 == Detach(par, HasTag(t, InDocument(t, par, b), {"header"}))
        p2 == Detach(p1, HasTag(t, InDocument(t, p1, b), {"footer"}))
    IN  Detach(p2, HasTag(t, InDocument(t, p2, b), {"nav"}))

CountIn(words, txt) == Cardinality({k \in words : KeywordIn(txt, k)})

\* is_header_footer of the second round, for one top-level div
IsStrongHeaderFooter(t, par, d) ==
    LET classes == Lower(Get(t[d], "class"))
        elem_id == Lower(Get(t[d], "id"))
        txt == text_content(t, par, d)
        text_length == TextLength(txt)
    IN  \/ \E ind \in strong_header_indicators \cup strong_footer_indicators :
              Contains(classes, ind) \/ Contains(elem_id, ind)
        \/ (CountIn(header_words, txt) >= 4 /\ text_length < 1000)
        \/ (CountIn(footer_words, txt) >= 3 /\ text_length < 800)

\* second round: the direct child divs of body with strong header/footer signals
RemoveStrongTopDivs(t, par, b) ==
    Detach(par, {d \in HasTag(t, ChildrenOf(t, par, b), {"div"}) :
                    IsStrongHeaderFooter(t, par, d)})

remove_page_level_header_footer(t, par, b) ==
    RemoveStrongTopDivs(t, RemoveSemanticTags(t, par, b), b)

\* body = page_tree.xpath("//body")[0] if page_tree.xpath("//body") else page_tree
BodyOf(t, par, root) ==
    LET bodies == HasTag(t, InDocument(t, par, root), {"body"})
    IN  IF bodies # {} THEN CHOOSE n \in bodies : \A m \in bodies : n <= m ELSE root

(***************************************************************************)
(* Density engine and the density pass                                     *)
(***************************************************************************)
\* calculate_text_density, as the pair <<numerator, denominator * 2>> (the
\* denominator counts half images, so it is kept doubled to stay integral)
calculate_text_density(t, par, n) ==
    LET text_length == TextLength(text_content(t, par, n))
        all == Descendants(t, par, n)
        tag_count == Cardinality(all)
        link_count == Cardinality(HasTag(t, all, {"a"}))
        image_count == Cardinality(HasTag(t, all, {"img"}))
        twice == 2 * tag_count + 4 * link_count + image_count
    IN  IF text_length = 0 THEN <<0, 2>>
        ELSE <<text_length, IF twice < 2 THEN 2 ELSE twice>>

\* density < k
DensityBelow(d, k) == 2 * d[1] < k * d[2]

HasArticleMeta(txt) ==
    \E i \in 1..Len(txt) :
        \E w \in {"{53d1}{5e03}{65f6}{95f4}", "{6765}{6e90}", "{6d4f}{89c8}{6b21}{6570}"} :
            TokContains(txt[i], w)

\* variant: has_important_content looks at the class only
IsProtectedByClassOnly(t, par, c) ==
    \/ \E ind \in important_indicators : Contains(Lower(Get(t[c], "class")), ind)
    \/ HasTag(t, Descendants(t, par, c), {"h1", "h2", "h3"}) # {}
    \/ \E m \in Descendants(t, par, c) : HasArticleMeta(t[m].text)
    \/ Cardinality(HasTag(t, Descendants(t, par, c), {"p"})) > 3

\* has_important_content or has_article_features
IsProtectedContainer(t, par, c) ==
    LET classes == Lower(Get(t[c], "class"))
        elem_id == Lower(Get(t[c], "id"))
        all == Descendants(t, par, c)
    IN  \/ \E ind \in important_indicators : Contains(classes, ind) \/ Contains(elem_id, ind)
        \/ HasTag(t, all, {"h1", "h2", "h3"}) # {}
        \/ \E m \in all : HasArticleMeta(t[m].text)
        \/ Cardinality(HasTag(t, all, {"p"})) > 3

\* is_low_quality
IsLowQuality(t, par, c) ==
    LET density == calculate_text_density(t, par, c)
        text_length == TextLength(text_content(t, par, c))
        all == Descendants(t, par, c)
        links == HasTag(t, all, {"a"})
        n_all == IF all = {} THEN 1 ELSE Cardinality(all)
        link_text_length ==
            SumSeq([i \in 1..Len(t) |->
                      IF i \in links THEN TextLength(text_content(t, par, i)) ELSE 0])
    IN  IF DensityBelow(density, 5) /\ 10 * Cardinality(links) > 3 * n_all THEN TRUE
        ELSE IF text_length < 200 /\ Cardinality(all) > 20 THEN TRUE
        ELSE IF links # {} /\ text_length < 500
             THEN text_length > 0 /\ 10 * link_text_length > 8 * text_length
        ELSE FALSE

top_level_tags == {"div", "section", "main", "article", "header", "footer", "nav", "aside"}

remove_low_density_containers(t, par, b) ==
    Detach(par, {c \in HasTag(t, ChildrenOf(t, par, b), top_level_tags) :
                    ~IsProtectedContainer(t, par, c) /\ IsLowQuality(t, par, c)})

(***************************************************************************)
(* Candidate scorer                                                        *)
(***************************************************************************)
WordChars ==
    DOMAIN UpperToLower \cup {UpperToLower[c] : c \in DOMAIN UpperToLower}
        \cup Digits \cup {"_"}

\* [^\w-] matches the character at position i of s
Delimiter(s, i) == SubSeq(s, i, i) \notin WordChars \cup {"-"}

\* create_pattern(keyword).search(s): (^|[^\w-])keyword([^\w-]|$)
PatternSearch(keyword, s) ==
    \E i \in 1..(Len(s) - Len(keyword) + 1) :
        /\ SubSeq(s, i, i + Len(keyword) - 1) = keyword
        /\ (i = 1 \/ Delimiter(s, i - 1))
        /\ (i + Len(keyword) - 1 = Len(s) \/ Delimiter(s, i + Len(keyword)))

interference_count(classes, elem_id) ==
    LET combined_text == Lower(Strip(classes \o " " \o elem_id))
    IN  Cardinality({k \in strong_interference_keywords : PatternSearch(k, combined_text)})

Min(a, b) == IF a <= b THEN a ELSE b

Max(a, b) == IF a >= b THEN a ELSE b

\* variant: step 3 without the "you are here" exemption
ContentPenaltyUnexempted(txt) ==
    (IF CountIn(header_words, txt) >= 3 THEN -300
     ELSE IF CountIn(header_words, txt) >= 2 THEN -150 ELSE 0)
    + (IF CountIn(footer_words, txt) >= 3 THEN -300
       ELSE IF CountIn(footer_words, txt) >= 2 THEN -150 ELSE 0)

\* steps 3 of the scorer: the header and footer vocabulary penalties
ContentPenalty(txt) ==
    LET positioned == \E ph \in position_phrases : KeywordIn(txt, ph)
        header_content_count == IF positioned THEN 0 ELSE CountIn(header_words, txt)
        footer_content_count == CountIn(footer_words, txt)
    IN  (IF header_content_count >= 3 THEN -300
         ELSE IF header_content_count >= 2 THEN -150 ELSE 0)
        + (IF footer_content_count >= 3 THEN -300
           ELSE IF footer_content_count >= 2 THEN -150 ELSE 0)

\* step 4
LengthBonus(text_length) ==
    IF text_length > 1000 THEN 50
    ELSE IF text_length > 500 THEN 35
    ELSE IF text_length > 200 THEN 20
    ELSE IF text_length < 50 THEN -20 ELSE 0

\* step 5
RoleBonus(role) ==
    IF role = "viewlist" THEN 150
    ELSE IF role \in {"list", "listbox", "grid", "main", "article"} THEN 50 ELSE 0

\* variant: the pattern total is added without its cap
PatternBonusUncapped(txt) ==
    SumSeq([p \in 1..8 |-> IF PatternIn(txt, p) THEN content_weight[p] ELSE 0])

\* step 6
PatternBonus(txt) ==
    LET total_content_score ==
            SumSeq([p \in 1..8 |-> IF PatternIn(txt, p) THEN content_weight[p] ELSE 0])
    IN  IF total_content_score > 0 THEN Min(total_content_score, 120) ELSE 0

\* step 7
PositiveBonus(classes, elem_id) ==
    LET positive_matches ==
            Cardinality({k \in positive_keywords : Contains(classes, k) \/ Contains(elem_id, k)})
    IN  IF positive_matches > 0 THEN Min(positive_matches * 20, 60) ELSE 0

\* step 8
StructureBonus(t, par, c) ==
    LET all == Descendants(t, par, c)
        structured_elements ==
            HasTag(t, all, {"p", "h1", "h2", "h3", "h4", "h5", "h6", "li", "table", "section"})
            \cup {d \in HasTag(t, all, {"div"}) : Contains(Get(t[d], "class"), "content")}
        n == Cardinality(structured_elements)
    IN  IF n > 5 THEN Min(n * 2, 40) ELSE 0

\* step 9
ImageBonus(t, par, c) ==
    LET images == Cardinality(HasTag(t, Descendants(t, par, c), {"img"}))
    IN  IF images > 0 THEN Min(images * 3, 150) ELSE 0

chrome_tags == {"header", "footer", "nav", "aside"}

calculate_content_container_score(t, par, c) ==
    LET classes == Lower(Get(t[c], "class"))
        elem_id == Lower(Get(t[c], "id"))
        txt == text_content(t, par, c)
        n_interf == interference_count(classes, elem_id)
        s2 == 0 - n_interf * 200
        s3 == s2 + ContentPenalty(txt)
    IN  IF Lower(t[c].tag) \in chrome_tags THEN -500
        ELSE IF n_interf >= 2 THEN s2
        ELSE IF s3 < -200 THEN s3
        ELSE s3 + LengthBonus(TextLength(txt)) + RoleBonus(Lower(Get(t[c], "role")))
                + PatternBonus(txt) + PositiveBonus(classes, elem_id)
                + StructureBonus(t, par, c) + ImageBonus(t, par, c)

(***************************************************************************)
(* Candidate selector                                                      *)
(***************************************************************************)
container_tags == {"div", "section", "article", "main"}

score_threshold == 20

is_protected(t, par, c) ==
    LET classes == Lower(Get(t[c], "class"))
        elem_id == Lower(Get(t[c], "id"))
        all == Descendants(t, par, c)
    IN  \/ Contains(elem_id, "printcontent")
        \/ \E d \in all : Get(t[d], "id") \in {"printContent", "printcontent"}
        \/ Contains(classes, "bg-fff")
        \/ (Contains(classes, "container") /\ Cardinality(all) > 20)

\* scored_containers before sorting: the candidates in document order
\* the body of the scoring loop for container c of the given score
\* variant: a protected container is appended with its computed score
ScoredEntryUnfloored(c, score, protected) ==
    IF protected THEN << [c |-> c, score |-> score] >>
    ELSE IF score < -100 THEN <<>>
    ELSE IF score > -50 THEN << [c |-> c, score |-> score] >>
    ELSE <<>>

ScoredEntry(c, score, protected) ==
    IF protected THEN << [c |-> c, score |-> Max(score, 50)] >>
    ELSE IF score < -100 THEN <<>>
    ELSE IF score > -50 THEN << [c |-> c, score |-> score] >>
    ELSE <<>>

ScoredContainers(t, par, b) ==
    Flatten([c \in Nodes(t) |->
               IF c \in HasTag(t, Descendants(t, par, b), container_tags)
               THEN ScoredEntry(c, calculate_content_container_score(t, par, c),
                                is_protected(t, par, c))
               ELSE <<>>])

RECURSIVE SortByScore(_)
\* scored_containers.sort(key=score, reverse=True): stable, by decreasing score
SortByScore(q) ==
    IF q = <<>> THEN <<>>
    ELSE LET best == CHOOSE i \in 1..Len(q) :
                        /\ \A j \in 1..Len(q) : q[j].score <= q[i].score
                        /\ \A j \in 1..(i - 1) : q[j].score < q[i].score
         IN  <<q[best]>>
             \o SortByScore([j \in 1..(Len(q) - 1) |-> IF j < best THEN q[j] ELSE q[j + 1]])

\* the position of container c in scored_containers
ScoreIn(scored, c) == (CHOOSE i \in 1..Len(scored) : scored[i].c = c /\ \A j \in 1..(i - 1) : scored[j].c # c)

\* calculate_container_depth
RECURSIVE calculate_container_depth(_, _, _)
calculate_container_depth(t, par, n) ==
    IF n = 0 THEN 0
    ELSE IF t[n].tag \in {"body", "html"} THEN 0
    ELSE 1 + calculate_container_depth(t, par, par[n])

DepthKey(t, par) == [n \in Nodes(t) |-> calculate_container_depth(t, par, n)]

\* variant: the first container of the band
select_first_from_similar(t, par, similar) == similar[1]

select_deepest_container_from_similar(t, par, similar) ==
    LET depth == DepthKey(t, par)
        best == CHOOSE i \in 1..Len(similar) :
                    /\ \A j \in 1..Len(similar) : depth[similar[j]] <= depth[similar[i]]
                    /\ \A j \in 1..(i - 1) : depth[similar[j]] < depth[similar[i]]
    IN  similar[best]

\* parent_child_pairs, in the order the double loop appends them
ParentChildPairs(par, similar, scored) ==
    LET n == Len(similar)
        pair(i, j) ==
            IF i # j /\ similar[i] \in Ancestors(par, similar[j])
            THEN << [parent |-> similar[i], child |-> similar[j],
                     parent_score |-> scored[ScoreIn(scored, similar[i])].score,
                     child_score |-> scored[ScoreIn(scored, similar[j])].score] >>
            ELSE <<>>
    IN  Flatten([k \in 1..(n * n) |-> pair(((k - 1) \div n) + 1, ((k - 1) % n) + 1)])

min_child_score == 150

\* variant: the depth rule alone (the call of line 858)
select_deepest_only(t, par, similar, scored) ==
    select_deepest_container_from_similar(t, par, similar)

\* variant: the best-scoring container of the band, nesting ignored
select_top_scoring(t, par, similar, scored) == similar[1]

select_best_container_prefer_child(t, par, similar, scored) ==
    LET pairs == ParentChildPairs(par, similar, scored)
        valid == {i \in 1..Len(pairs) :
                    /\ pairs[i].parent_score - pairs[i].child_score <= 20
                    /\ pairs[i].child_score >= min_child_score}
        diff(i) == pairs[i].parent_score - pairs[i].child_score
        \* valid_children.sort(key=(-child_score, score_diff)): the first smallest
        first(i) ==
            \A j \in valid :
                \/ pairs[j].child_score < pairs[i].child_score
                \/ (pairs[j].child_score = pairs[i].child_score /\ diff(j) > diff(i))
                \/ (pairs[j].child_score = pairs[i].child_score /\ diff(j) = diff(i) /\ i <= j)
        best == CHOOSE i \in valid : first(i)
        best_child == pairs[best].child
        parent_candidates == {i \in 1..Len(pairs) : pairs[i].child = best_child}
        pc0 == pairs[CHOOSE i \in parent_candidates : \A j \in parent_candidates : i <= j].parent
        child_text_length == TextLength(text_content(t, par, best_child))
        parent_text_length == TextLength(text_content(t, par, pc0))
    IN  IF valid # {}
        THEN IF 10 * child_text_length < 6 * parent_text_length THEN pc0 ELSE best_child
        ELSE select_deepest_container_from_similar(t, par, similar)

\* variant: every scored container counts as similar
similar_any_score(scored, best_score) == [i \in 1..Len(scored) |-> scored[i].c]

\* similar_score_containers: abs(score - best_score) <= score_threshold
similar_score_containers(scored, best_score) ==
    Flatten([i \in 1..Len(scored) |->
               IF /\ best_score - scored[i].score <= score_threshold
                  /\ scored[i].score - best_score <= score_threshold
               THEN <<scored[i].c>> ELSE <<>>])

\* the end of find_main_content_in_cleaned_html, once the band is known
BestOfSimilar(t, par, similar, scored) ==
    IF Len(similar) > 1 THEN select_best_container_prefer_child(t, par, similar, scored)
    ELSE scored[1].c

\* variant: with nothing scored, the last container of the broad selector
BestContainerLast(t, par, b, content_containers, scored) ==
    IF content_containers = {} THEN b
    ELSE IF scored = <<>>
         THEN CHOOSE c \in content_containers : \A d \in content_containers : d <= c
    ELSE BestOfSimilar(t, par, similar_score_containers(scored, scored[1].score), scored)

\* find_main_content_in_cleaned_html after collecting and scoring
BestContainer(t, par, b, content_containers, scored) ==
    IF content_containers = {} THEN b
    ELSE IF scored = <<>>
         THEN CHOOSE c \in content_containers : \A d \in content_containers : c <= d
    ELSE BestOfSimilar(t, par, similar_score_containers(scored, scored[1].score), scored)

find_main_content_in_cleaned_html(t, par, b) ==
    BestContainer(t, par, b, HasTag(t, Descendants(t, par, b), container_tags),
                  SortByScore(ScoredContainers(t, par, b)))

(***************************************************************************)
(* Locator generator                                                       *)
(***************************************************************************)
None == "None"

is_interference_identifier(identifier) ==
    identifier # "" /\ \E k \in interference_keywords : Contains(Lower(identifier), k)

RECURSIVE Split(_)
\* str.split(): the whitespace-separated words of s
Split(s) ==
    LET z == Strip(s)
        stops == {i \in 1..Len(z) : IsSpace(SubSeq(z, i, i))}
        cut == CHOOSE i \in stops : \A j \in stops : i <= j
    IN  IF z = "" THEN <<>>
        ELSE IF stops = {} THEN <<z>>
        ELSE <<SubSeq(z, 1, cut - 1)>> \o Split(SubSeq(z, cut + 1, Len(z)))

HasCleanIdentifier(e) ==
    \/ (Get(e, "id") # "" /\ ~is_interference_identifier(Get(e, "id")))
    \/ \E i \in 1..Len(Split(Get(e, "class"))) :
          ~is_interference_identifier(Split(Get(e, "class"))[i])

RECURSIVE find_closest_clean_identifier(_, _, _)
\* walks the parents of el up to, not including, html; 0 when none qualifies
find_closest_clean_identifier(t, par, el) ==
    LET p == par[el]
    IN  IF p = 0 THEN 0
        ELSE IF t[p].tag = "html" THEN 0
        ELSE IF HasCleanIdentifier(t[p]) THEN p
        ELSE find_closest_clean_identifier(t, par, p)

\* tag[index]: index counts the preceding siblings of the same tag
Step(t, par, n) ==
    LET before == {m \in Nodes(t) : m < n /\ par[n] # 0 /\ par[m] = par[n] /\ t[m].tag = t[n].tag}
    IN  t[n].tag \o "[" \o IndexStr(Cardinality(before) + 1) \o "]"

\* variant: the relative path is the step of the target alone
generate_relative_path_leaf(t, par, ancestor_el, target_el) ==
    IF target_el = 0 \/ target_el = ancestor_el THEN "" ELSE "/" \o Step(t, par, target_el)

RECURSIVE generate_relative_path(_, _, _, _)
\* "/" + "/".join(path) for the path from below ancestor_el down to target_el
generate_relative_path(t, par, ancestor_el, target_el) ==
    IF target_el = 0 \/ target_el = ancestor_el THEN ""
    ELSE generate_relative_path(t, par, ancestor_el, par[target_el])
            \o "/" \o Step(t, par, target_el)

RECURSIVE PositionalPath(_, _, _)
PositionalPath(t, par, n) ==
    IF n = 0 THEN ""
    ELSE IF t[n].tag = "html" THEN ""
    ELSE PositionalPath(t, par, par[n]) \o "/" \o Step(t, par, n)

stable_attributes == <<"aria-label", "role", "data-testid", "data-role">>

\* variant: the positional path only
generate_xpath_positional(t, par, element) ==
    IF ~Truthy(t, par, element) THEN None ELSE PositionalPath(t, par, element)

RECURSIVE generate_xpath(_, _, _)
generate_xpath(t, par, element) ==
    LET e == t[element]
        tag == e.tag
        elem_id == Get(e, "id")
        classes == Get(e, "class")
        usable == {i \in 1..Len(stable_attributes) :
                     /\ Get(e, stable_attributes[i]) # ""
                     /\ ~is_interference_identifier(Get(e, stable_attributes[i]))}
        attr == stable_attributes[CHOOSE i \in usable : \A j \in usable : i <= j]
        ancestor == find_closest_clean_identifier(t, par, element)
        ancestor_xpath == generate_xpath(t, par, ancestor)
        absolute == PositionalPath(t, par, element)
    IN  IF ~Truthy(t, par, element) THEN None
        ELSE IF elem_id # "" /\ ~is_interference_identifier(elem_id)
             THEN "//" \o tag \o "[@id='" \o elem_id \o "']"
        ELSE IF classes # ""
             THEN "//" \o tag \o "[@class='" \o classes \o "']"
        ELSE IF usable # {}
             THEN "//" \o tag \o "[@" \o attr \o "='" \o Get(e, attr) \o "']"
        ELSE IF ancestor # 0 /\ ancestor_xpath \notin {None, ""}
             THEN ancestor_xpath \o generate_relative_path(t, par, ancestor, element)
        ELSE IF absolute = "" THEN "/" ELSE absolute

(***************************************************************************)
(* extract_content_to_markdown                                             *)
(***************************************************************************)
Failed == [markdown_content |-> <<>>, xpath |-> "", status |-> "failed"]

NoResult == [markdown_content |-> <<>>, xpath |-> "", status |-> "none"]

\* the Markdown of the container: its text, script and style dropped
\* (markdownify and clean_markdown_content, by what reaches the caller)
Render(t, par, n) ==
    Flatten([i \in 1..Len(t) |->
               IF (i = n \/ n \in Ancestors(par, i)) /\ t[i].tag \notin {"script", "style"}
               THEN t[i].text ELSE <<>>])

Parsed(i) == fromstring(i)

ParentMap(t) == [n \in 1..Len(t) |-> t[n].par]

Success(t, par, n) ==
    [markdown_content |-> Render(t, par, n), xpath |-> generate_xpath(t, par, n),
     status |-> "success"]

(***************************************************************************)
(* The state machine.  A caller holds one html_content and either calls    *)
(* extract_content_to_markdown (Parse, Clean, Select, Emit: the statements *)
(* of its try block, any of which may raise), posts it to /extract         *)
(* (Accept, the same call, Respond), or parses it and calls one helper on  *)
(* the tree.                                                               *)
(***************************************************************************)
\* no list walk is running
NoWalk == [pc |-> "none"]

\* no pool has been constructed
NoPool ==
    /\ drivers = <<>>
    /\ holding = <<>>
    /\ client_pc = <<>>
    /\ closer = [pc |-> "none"]
    /\ quit_called = {}

Init ==
    /\ input \in Inputs
    /\ pc = "start"
    /\ http = FALSE
    /\ tree = <<>>
    /\ parent = <<>>
    /\ page_tree = 0
    /\ body = 0
    /\ selected = 0
    /\ result = NoResult
    /\ caught = FALSE
    /\ response = 0
    /\ arg = 0
    /\ ret = ""
    /\ score_ret = 0
    /\ walk = NoWalk
    /\ NoPool

\* POST /extract up to the extraction call: the blank check
Accept ==
    /\ pc = "start"
    /\ IF IsBlank(input)
       THEN response' = 400 /\ pc' = "responded" /\ UNCHANGED http
       ELSE http' = TRUE /\ pc' = "accepted" /\ UNCHANGED response
    /\ UNCHANGED <<input, tree, parent, page_tree, body, selected, result, caught, arg, ret, score_ret,
                   walk, pool_vars>>

\* variant: the exception leaves the call
RaisePropagates ==
    /\ pc' = "raised"
    /\ UNCHANGED <<result, caught>>

\* except Exception as e: return the failed record
Raise ==
    /\ result' = Failed
    /\ caught' = TRUE
    /\ pc' = "returned"

\* tree = html.fromstring(html_content)
Parse ==
    /\ pc \in {"start", "accepted"}
    /\ \E fault \in BOOLEAN :
        IF fault \/ ParserError(input)
        THEN Raise /\ UNCHANGED <<tree, parent, page_tree>>
        ELSE \E p \in {Parsed(input)} :
                /\ tree' = p.tree
                /\ parent' = ParentMap(p.tree)
                /\ page_tree' = p.root
                /\ pc' = "parsed"
                /\ UNCHANGED <<result, caught>>
    /\ UNCHANGED <<input, http, body, selected, response, arg, ret, score_ret,
                   walk, pool_vars>>

\* variant: the cleaning stage followed by the density pass
CleanThenDensity ==
    /\ pc = "parsed"
    /\ \E fault \in BOOLEAN :
        IF fault
        THEN Raise /\ UNCHANGED <<parent, body>>
        ELSE \E b \in {BodyOf(tree, parent, page_tree)} :
                /\ body' = b
                /\ parent' = remove_low_density_containers(
                                 tree, remove_page_level_header_footer(tree, parent, b), b)
                /\ pc' = "cleaned"
                /\ UNCHANGED <<result, caught>>
    /\ UNCHANGED <<input, http, tree, page_tree, selected, response, arg, ret, score_ret,
                   walk, pool_vars>>

\* cleaned_body = preprocess_html_remove_interference(page_tree)
Clean ==
    /\ pc = "parsed"
    /\ \E fault \in BOOLEAN :
        IF fault
        THEN Raise /\ UNCHANGED <<parent, body>>
        ELSE \E b \in {BodyOf(tree, parent, page_tree)} :
                /\ body' = b
                /\ parent' = remove_page_level_header_footer(tree, parent, b)
                /\ pc' = "cleaned"
                /\ UNCHANGED <<result, caught>>
    /\ UNCHANGED <<input, http, tree, page_tree, selected, response, arg, ret, score_ret,
                   walk, pool_vars>>

\* main_container = find_main_content_in_cleaned_html(cleaned_body);
\* if not main_container: return the failed record
Select ==
    /\ pc = "cleaned"
    /\ \E fault \in BOOLEAN :
        IF fault
        THEN Raise /\ UNCHANGED selected
        ELSE \E main_container \in {find_main_content_in_cleaned_html(tree, parent, body)} :
                /\ selected' = main_container
                /\ UNCHANGED caught
                /\ IF ~Truthy(tree, parent, main_container)
                   THEN result' = Failed /\ pc' = "returned"
                   ELSE pc' = "selected" /\ UNCHANGED result
    /\ UNCHANGED <<input, http, tree, parent, page_tree, body, response, arg, ret, score_ret,
                   walk, pool_vars>>

\* generate_xpath, html.tostring, clean_container_html, markdownify,
\* clean_markdown_content and the return of the success record
Emit ==
    /\ pc = "selected"
    /\ \E fault \in BOOLEAN :
        IF fault THEN Raise
        ELSE /\ result' = Success(tree, parent, selected)
             /\ pc' = "returned"
             /\ UNCHANGED caught
    /\ UNCHANGED <<input, http, tree, parent, page_tree, body, selected, response, arg, ret, score_ret,
                   walk, pool_vars>>

\* POST /extract after the extraction call; fault: a statement of the handler
\* raises something other than HTTPException
Respond ==
    /\ pc = "returned"
    /\ http
    /\ \E fault \in BOOLEAN :
        response' = IF fault THEN 500
                    ELSE IF result.status = "failed" THEN 422 ELSE 200
    /\ pc' = "responded"
    /\ UNCHANGED <<input, http, tree, parent, page_tree, body, selected, result, caught, arg, ret, score_ret,
                   walk, pool_vars>>

\* a caller parses the document and calls remove_low_density_containers(body)
CallRemoveLowDensity ==
    /\ pc = "start"
    /\ ~ParserError(input)
    /\ \E p \in {Parsed(input)} :
        \E b \in {BodyOf(p.tree, ParentMap(p.tree), p.root)} :
            /\ tree' = p.tree
            /\ page_tree' = p.root
            /\ body' = b
            /\ parent' = remove_low_density_containers(p.tree, ParentMap(p.tree), b)
    /\ pc' = "density_returned"
    /\ UNCHANGED <<input, http, selected, result, caught, response, arg, ret, score_ret,
                   walk, pool_vars>>

\* a caller parses the document and calls generate_xpath(element)
CallGenerateXpath ==
    /\ pc = "start"
    /\ ~ParserError(input)
    /\ \E p \in {Parsed(input)} :
        \E n \in Nodes(p.tree) :
            /\ tree' = p.tree
            /\ page_tree' = p.root
            /\ parent' = ParentMap(p.tree)
            /\ arg' = n
            /\ ret' = generate_xpath(p.tree, ParentMap(p.tree), n)
    /\ pc' = "xpath_returned"
    /\ UNCHANGED <<input, http, body, selected, result, caught, response, score_ret,
                   walk, pool_vars>>

\* a caller parses the document and calls calculate_content_container_score(container)
CallScore ==
    /\ pc = "start"
    /\ ~ParserError(input)
    /\ \E p \in {Parsed(input)} :
        \E n \in Nodes(p.tree) :
            /\ tree' = p.tree
            /\ page_tree' = p.root
            /\ parent' = ParentMap(p.tree)
            /\ arg' = n
            /\ score_ret' = calculate_content_container_score(p.tree, ParentMap(p.tree), n)
    /\ pc' = "score_returned"
    /\ UNCHANGED <<input, http, body, selected, result, caught, response, ret,
                   walk, pool_vars>>

(***************************************************************************)
(* The upward walk of find_list_container.  The walk looks at a container  *)
(* through calculate_container_score, count_list_items and                 *)
(* has_negative_ancestor only, so a container is the record of what these  *)
(* return for it; the chain of ancestors is drawn one parent at a time.    *)
(***************************************************************************)
\* the most ancestors the walk can climb
MaxLevels == 3

\* values of calculate_container_score(container)
ListScores == {-60, 0, 8, 30}

\* values of count_list_items(container)
ItemCounts == {2, 5, 51}

\* container.getparent() is None
NoParent == [tag |-> "none", negative |-> FALSE, score |-> 0, items |-> 0]

\* what getparent() of a container with the given item count at the given
\* height can be: nothing, the html element, or a container holding at least
\* the same list items
Parents(level, items) ==
    {NoParent, [tag |-> "html", negative |-> FALSE, score |-> 0, items |-> items]}
    \cup {[tag |-> "div", negative |-> neg, score |-> s, items |-> n] :
            neg \in BOOLEAN, s \in ListScores,
            n \in {k \in ItemCounts : k >= items /\ level < MaxLevels}}

\* variant: the third condition without its test of the parent's score
should_upgrade_any_score(parent_score, current_score, parent_items, max_items) ==
    IF parent_score < -50 THEN FALSE
    ELSE \/ (parent_score > current_score + 15 /\ parent_score > 10)
         \/ /\ parent_score >= current_score - 3
            /\ parent_score > 5
            /\ parent_items <= max_items * 2
            /\ parent_items >= max_items
         \/ /\ max_items < 4
            /\ parent_items >= max_items
            /\ parent_items <= 15

\* should_upgrade of one iteration of the walk
should_upgrade(parent_score, current_score, parent_items, max_items) ==
    IF parent_score < -50 THEN FALSE
    ELSE \/ (parent_score > current_score + 15 /\ parent_score > 10)
         \/ /\ parent_score >= current_score - 3
            /\ parent_score > 5
            /\ parent_items <= max_items * 2
            /\ parent_items >= max_items
         \/ /\ max_items < 4
            /\ parent_items >= max_items
            /\ parent_items <= 15
            /\ parent_score > 0

\* current_container = best_container; max_items = parent_counts[best_container]
WalkInit ==
    /\ walk \in {[pc |-> "walking", level |-> 0, score |-> s, items |-> n,
                  max_items |-> m, up |-> p, current_score |-> 0, parent_score |-> 0,
                  should_upgrade |-> FALSE] :
                    s \in ListScores, n \in ItemCounts, m \in ItemCounts,
                    p \in UNION {Parents(0, k) : k \in ItemCounts}}
    /\ walk.up.tag = "div" => walk.up.items >= walk.items
    /\ walk.up.tag = "html" => walk.up.items = walk.items
    /\ input = [kind |-> "html", full |-> FALSE, bodyClass |-> "", blocks |-> <<>>]
    /\ pc = "start"
    /\ http = FALSE
    /\ tree = <<>>
    /\ parent = <<>>
    /\ page_tree = 0
    /\ body = 0
    /\ selected = 0
    /\ result = NoResult
    /\ caught = FALSE
    /\ response = 0
    /\ arg = 0
    /\ ret = ""
    /\ score_ret = 0
    /\ NoPool

\* w, moved to its parent (current_container = parent)
MoveUp(w, next_pc) ==
    \E p \in Parents(w.level + 1, w.up.items) :
        walk' = [w EXCEPT !.pc = next_pc, !.level = w.level + 1, !.score = w.up.score,
                          !.items = w.up.items, !.up = p]

\* the locals of an iteration that reached the comparison of the scores
Compared(w, upgrade) ==
    [w EXCEPT !.parent_score = w.up.score, !.current_score = w.score,
              !.should_upgrade = upgrade]

\* one iteration of the while True loop
WalkStep ==
    /\ walk.pc = "walking"
    /\ IF walk.up.tag \in {"none", "html"} \/ walk.up.negative
       THEN walk' = [walk EXCEPT !.pc = "final"]
       ELSE IF should_upgrade(walk.up.score, walk.score, walk.up.items, walk.max_items)
            THEN MoveUp([Compared(walk, TRUE) EXCEPT !.max_items = walk.up.items],
                        IF walk.up.items > 50 THEN "final" ELSE "walking")
            ELSE walk' = [Compared(walk, FALSE) EXCEPT !.pc = "final"]
    /\ UNCHANGED <<page_vars, pool_vars>>

\* the final pass: one more level when the container is small or scores badly
FinalAdjust ==
    /\ walk.pc = "final"
    /\ IF (walk.items < 4 \/ walk.score < -10) /\ walk.up.tag \notin {"none", "html"}
       THEN IF walk.up.items > walk.items /\ walk.up.score > 0 /\ walk.up.items <= 30
            THEN MoveUp([walk EXCEPT !.parent_score = walk.up.score], "returned")
            ELSE walk' = [walk EXCEPT !.parent_score = walk.up.score, !.pc = "returned"]
       ELSE walk' = [walk EXCEPT !.pc = "returned"]
    /\ UNCHANGED <<page_vars, pool_vars>>

WalkNext ==
    \/ WalkStep
    \/ FinalAdjust

WalkSpec == WalkInit /\ [][WalkNext]_vars

(***************************************************************************)
(* WebDriverPool.  A driver is its number; client threads call get_driver  *)
(* and return_driver, one thread calls close_all.  Queue.get and Queue.put *)
(* are atomic (the queue's mutex); close_all is four steps: the call, the  *)
(* test of empty(), the get, the quit.                                     *)
(***************************************************************************)
\* WebDriverPool(pool_size)
pool_size == 2

\* the number of client threads
MaxClients == 2

Clients == 1..MaxClients

\* variant: get leaves the driver in the queue
QueuePeek(q) == q

\* what Queue.get leaves in the queue
QueueGet(q) == Tail(q)

\* variant: the exception of quit() leaves close_all
ExceptReraise(raises) == IF raises THEN "raised" ELSE "test"

\* try: driver.quit() except: pass -- back to the loop test either way
ExceptPass(raises) == "test"

\* the pool after __init__: _init_drivers has put pool_size drivers
PoolInit ==
    /\ drivers = [i \in 1..pool_size |-> i]
    /\ holding = [c \in Clients |-> {}]
    /\ client_pc = [c \in Clients |-> "idle"]
    /\ closer = [pc |-> "idle", driver |-> 0, idle_at_call |-> {}, alone |-> TRUE,
                 quit_raised |-> FALSE]
    /\ quit_called = {}
    /\ walk = NoWalk
    /\ input = [kind |-> "html", full |-> FALSE, bodyClass |-> "", blocks |-> <<>>]
    /\ pc = "start"
    /\ http = FALSE
    /\ tree = <<>>
    /\ parent = <<>>
    /\ page_tree = 0
    /\ body = 0
    /\ selected = 0
    /\ result = NoResult
    /\ caught = FALSE
    /\ response = 0
    /\ arg = 0
    /\ ret = ""
    /\ score_ret = 0

\* close_all, once it has been called, is no longer the pool's only user
\* when a client thread takes a step
Disturbed ==
    IF closer.pc = "idle" THEN closer ELSE [closer EXCEPT !.alone = FALSE]

\* client c calls get_driver
CallGetDriver(c) ==
    /\ client_pc[c] = "idle"
    /\ client_pc' = [client_pc EXCEPT ![c] = "get"]
    /\ closer' = Disturbed
    /\ UNCHANGED <<page_vars, walk, drivers, holding, quit_called>>

\* Queue.get on an empty queue: the thread waits on not_empty
WaitForDriver(c) ==
    /\ client_pc[c] = "get"
    /\ drivers = <<>>
    /\ client_pc' = [client_pc EXCEPT ![c] = "blocked"]
    /\ closer' = Disturbed
    /\ UNCHANGED <<page_vars, walk, drivers, holding, quit_called>>

\* variant: get_nowait, which comes back empty-handed from an empty queue
GetDriverNoWait(c) ==
    /\ client_pc[c] \in {"get", "blocked"}
    /\ holding' = [holding EXCEPT ![c] = IF drivers = <<>> THEN @ ELSE @ \cup {Head(drivers)}]
    /\ drivers' = IF drivers = <<>> THEN drivers ELSE QueueGet(drivers)
    /\ client_pc' = [client_pc EXCEPT ![c] = "idle"]
    /\ closer' = Disturbed
    /\ UNCHANGED <<page_vars, walk, quit_called>>

\* return self.drivers.get(): returns once the queue has a driver
GetDriver(c) ==
    /\ client_pc[c] \in {"get", "blocked"}
    /\ drivers # <<>>
    /\ holding' = [holding EXCEPT ![c] = @ \cup {Head(drivers)}]
    /\ drivers' = QueueGet(drivers)
    /\ client_pc' = [client_pc EXCEPT ![c] = "idle"]
    /\ closer' = Disturbed
    /\ UNCHANGED <<page_vars, walk, quit_called>>

\* client c calls return_driver(d) with a driver it holds: self.drivers.put(d)
ReturnDriver(c) ==
    /\ client_pc[c] = "idle"
    /\ \E d \in holding[c] :
          /\ drivers' = Append(drivers, d)
          /\ holding' = [holding EXCEPT ![c] = @ \ {d}]
    /\ closer' = Disturbed
    /\ UNCHANGED <<page_vars, walk, client_pc, quit_called>>

\* a thread calls close_all
CloseAll ==
    /\ closer.pc = "idle"
    /\ closer' = [closer EXCEPT !.pc = "test",
                                !.idle_at_call = {drivers[i] : i \in 1..Len(drivers)}]
    /\ UNCHANGED <<page_vars, walk, drivers, holding, client_pc, quit_called>>

\* while not self.drivers.empty()
CloseTest ==
    /\ closer.pc = "test"
    /\ closer' = [closer EXCEPT !.pc = IF drivers = <<>> THEN "done" ELSE "get"]
    /\ UNCHANGED <<page_vars, walk, drivers, holding, client_pc, quit_called>>

\* driver = self.drivers.get(): waits until the queue has a driver
CloseGet ==
    /\ closer.pc = "get"
    /\ drivers # <<>>
    /\ closer' = [closer EXCEPT !.pc = "quit", !.driver = Head(drivers)]
    /\ drivers' = QueueGet(drivers)
    /\ UNCHANGED <<page_vars, walk, holding, client_pc, quit_called>>

\* try: driver.quit() except: pass
CloseQuit ==
    /\ closer.pc = "quit"
    /\ quit_called' = quit_called \cup {closer.driver}
    /\ \E raises \in BOOLEAN :
          closer' = [closer EXCEPT !.pc = ExceptPass(raises),
                                   !.quit_raised = @ \/ raises]
    /\ UNCHANGED <<page_vars, walk, drivers, holding, client_pc>>

PoolNext ==
    \/ \E c \in Clients : CallGetDriver(c)
    \/ \E c \in Clients : WaitForDriver(c)
    \/ \E c \in Clients : GetDriver(c)
    \/ \E c \in Clients : ReturnDriver(c)
    \/ CloseAll
    \/ CloseTest
    \/ CloseGet
    \/ CloseQuit

PoolSpec == PoolInit /\ [][PoolNext]_vars

\* a thread waiting in Queue.get on a queue that has a driver gets to run
PoolFairSpec == PoolSpec /\ \A c \in Clients : WF_vars(GetDriver(c))

\* variant: the article container is tested for truth, as in
\* extract_content_to_markdown
ListEntryTruthy(t, par, article_container) ==
    IF Truthy(t, par, article_container)
    THEN [pc |-> "list_returned", container |-> article_container]
    ELSE [pc |-> "list_grouping", container |-> 0]

\* the first statements of find_list_container: return the article container
\* unless it is None (0), else go on to the list selectors
ListEntry(t, par, article_container) ==
    IF article_container # 0
    THEN [pc |-> "list_returned", container |-> article_container]
    ELSE [pc |-> "list_grouping", container |-> 0]

\* a caller parses the document and calls find_list_container(page_tree)
CallFindListContainer ==
    /\ pc = "start"
    /\ ~ParserError(input)
    /\ \E p \in {Parsed(input)} :
        \E b \in {BodyOf(p.tree, ParentMap(p.tree), p.root)} :
            \E cleaned \in {remove_page_level_header_footer(p.tree, ParentMap(p.tree), b)} :
                \E r \in {ListEntry(p.tree, cleaned,
                                    find_main_content_in_cleaned_html(p.tree, cleaned, b))} :
                    /\ tree' = p.tree
                    /\ page_tree' = p.root
                    /\ body' = b
                    /\ parent' = cleaned
                    /\ selected' = r.container
                    /\ pc' = r.pc
    /\ UNCHANGED <<input, http, result, caught, response, arg, ret, score_ret,
                   walk, pool_vars>>

Next ==
    \/ Accept
    \/ Parse
    \/ Clean
    \/ Select
    \/ Emit
    \/ Respond
    \/ CallRemoveLowDensity
    \/ CallGenerateXpath
    \/ CallScore
    \/ CallFindListContainer

Spec == Init /\ [][Next]_vars

(***************************************************************************)
(* XPath evaluation, for the locators generate_xpath emits: //tag[@a='v']  *)
(* or an absolute path, followed by /tag[i] steps.  doc is a parsed        *)
(* document; the document node is 0.                                       *)
(***************************************************************************)
RECURSIVE SplitAt(_, _)
SplitAt(s, c) ==
    IF \A i \in 1..Len(s) : SubSeq(s, i, i) # c THEN <<s>>
    ELSE LET cut == CHOOSE i \in 1..Len(s) :
                        /\ SubSeq(s, i, i) = c
                        /\ \A j \in 1..(i - 1) : SubSeq(s, j, j) # c
         IN  <<SubSeq(s, 1, cut - 1)>> \o SplitAt(SubSeq(s, cut + 1, Len(s)), c)

StepName(seg) == SplitAt(seg, "[")[1]

StepPredicate(seg) == SubSeq(seg, Len(StepName(seg)) + 2, Len(seg) - 1)

\* the position of n among the siblings of its tag
Ordinal(doc, n) ==
    1 + Cardinality({m \in 1..(n - 1) : doc[m].par = doc[n].par /\ doc[m].tag = doc[n].tag})

AttributeTest(e, kv) == Get(e, kv[1]) = SubSeq(kv[2], 2, Len(kv[2]) - 1)

PredicateHolds(doc, n, pred) ==
    IF SubSeq(pred, 1, 1) = "@"
    THEN AttributeTest(doc[n], SplitAt(SubSeq(pred, 2, Len(pred)), "="))
    ELSE IndexStr(Ordinal(doc, n)) = pred

StepMatches(doc, n, seg) ==
    doc[n].tag = StepName(seg) /\ PredicateHolds(doc, n, StepPredicate(seg))

RECURSIVE Walk(_, _, _)
Walk(doc, ctx, segs) ==
    IF segs = <<>> THEN ctx
    ELSE Walk(doc, {n \in 1..Len(doc) : doc[n].par \in ctx /\ StepMatches(doc, n, Head(segs))},
              Tail(segs))

PathSelect(doc, segs) ==
    IF Len(segs) >= 3 /\ segs[1] = "" /\ segs[2] = ""
    THEN Walk(doc, {n \in 1..Len(doc) : StepMatches(doc, n, segs[3])}, SubSeq(segs, 4, Len(segs)))
    ELSE Walk(doc, {0}, Tail(segs))

\* the elements of doc the locator x selects
XPathSelect(doc, x) == PathSelect(doc, SplitAt(x, "/"))

(***************************************************************************)
(* Properties                                                              *)
(***************************************************************************)
\* the extraction call has passed its selection step
Chosen == selected # 0 /\ pc \in {"selected", "returned", "responded"}

\* n is a header, footer or nav element of the parsed document, or inside one
InsideChrome(n) ==
    \E a \in {n} \cup Ancestors(ParentMap(tree), n) : tree[a].tag \in {"header", "footer", "nav"}

\* C1: extract_content_to_markdown always returns the three-field record and
\* never raises: the call ends in "returned" with status success or failed, a
\* failed record has empty content and empty locator, and a fault caught at
\* any step yields exactly the failed record.
C1_NeverRaises ==
    /\ pc \in {"start", "accepted", "parsed", "cleaned", "selected", "returned",
               "responded", "density_returned", "xpath_returned", "score_returned",
               "list_returned", "list_grouping"}
    /\ DOMAIN result = {"markdown_content", "xpath", "status"}
    /\ pc = "returned" => result.status \in {"success", "failed"}
    /\ result.status = "failed" => result.markdown_content = <<>> /\ result.xpath = ""
    /\ caught => pc \in {"returned", "responded"} /\ result = Failed

\* a fault after the container was selected (locator or rendering) was caught
C1_Witness == pc = "returned" /\ caught /\ selected # 0 /\ result = Failed

\* zero usable candidates after cleaning and scoring
NoCandidates == Chosen /\ ScoredContainers(tree, parent, body) = <<>>

\* the first div/section/article/main under the cleaned body, or the body
FallbackOf(b, content_containers) ==
    IF content_containers = {} THEN b
    ELSE CHOOSE c \in content_containers : \A d \in content_containers : c <= d

\* C2 as stated: with zero usable candidates extraction returns the failed
\* record.
C2_NoCandidateFails == (pc = "returned" /\ NoCandidates) => result = Failed

\* C2 amended: with zero usable candidates the selector falls back to the
\* first container under the cleaned body (or the body), and without a fault
\* extraction fails exactly when that node has no child elements.
C2_FallbackDecides ==
    NoCandidates =>
        /\ selected = FallbackOf(body, HasTag(tree, Descendants(tree, parent, body), container_tags))
        /\ (pc = "returned" /\ ~caught) =>
              (result.status = "failed" <=> ChildrenOf(tree, parent, selected) = {})

\* no candidate, and the fallback container was returned with status success
C2_Witness ==
    /\ pc = "returned"
    /\ NoCandidates
    /\ result.status = "success"
    /\ tree[selected].tag \in container_tags

\* a footer element whose text holds a footer keyword
HasKeywordFooter ==
    \E f \in Nodes(tree) :
        /\ tree[f].tag = "footer"
        /\ CountIn(footer_words, text_content(tree, ParentMap(tree), f)) >= 1

\* a container outside the chrome with at least 500 characters of text
HasProseContainer ==
    \E c \in Nodes(tree) :
        /\ tree[c].tag \in container_tags
        /\ ~InsideChrome(c)
        /\ TextLength(text_content(tree, ParentMap(tree), c)) >= 500

\* C3: in a document with a keyword footer and a separate container of at
\* least 500 characters, the selected node is no header, footer or nav and
\* lies inside none, and after cleaning no such element is left in the tree.
C3_ChromeExclusion ==
    (body # 0 /\ pc \in {"cleaned", "selected", "returned", "responded"}
        /\ HasKeywordFooter /\ HasProseContainer) =>
        /\ \A n \in InDocument(tree, parent, body) : tree[n].tag \notin {"header", "footer", "nav"}
        /\ selected # 0 => ~InsideChrome(selected)

\* such a document whose footer holds a container, extracted with success
C3_Witness ==
    /\ pc = "returned"
    /\ result.status = "success"
    /\ HasKeywordFooter
    /\ HasProseContainer
    /\ \E n \in Nodes(tree) : tree[n].tag \in container_tags /\ InsideChrome(n)

\* c is a direct child container of body whose id is a content marker
MarkedTopLevel(c) ==
    /\ tree[c].par = 2
    /\ tree[c].tag \in top_level_tags
    /\ Lower(Get(tree[c], "id")) \in important_indicators

\* C4 as stated: no pass of the cleaner removes a direct child container of
\* body whose id is a content marker.
C4_NeverRemoved ==
    tree # <<>> => \A c \in Nodes(tree) : MarkedTopLevel(c) => parent[c] = tree[c].par

\* C4 amended: the density pass (remove_low_density_containers) never removes
\* a direct child container of body whose id is a content marker, whatever
\* its class, text, density or link ratio.
C4_DensityPassKeeps ==
    pc = "density_returned" =>
        \A c \in Nodes(tree) : MarkedTopLevel(c) => parent[c] = tree[c].par

\* the density pass removed a container and kept a marked one that meets its
\* removal conditions
C4_Witness ==
    /\ pc = "density_returned"
    /\ \E c \in Nodes(tree) :
        /\ MarkedTopLevel(c)
        /\ IsLowQuality(tree, ParentMap(tree), c)
        /\ parent[c] = 2
    /\ \E d \in Nodes(tree) : tree[d].par = 2 /\ parent[d] = 0

\* the score of candidate c
ScoreFor(scored, c) == scored[ScoreIn(scored, c)].score

\* outer and inner are nested candidates within 20 points of each other, the
\* inner scoring at least 150 with at least 60% of the outer's text
TieBreakPair(t, par, scored, outer, inner) ==
    /\ outer \in Ancestors(par, inner)
    /\ ScoreFor(scored, outer) - ScoreFor(scored, inner) <= 20
    /\ ScoreFor(scored, inner) - ScoreFor(scored, outer) <= 20
    /\ ScoreFor(scored, inner) >= 150
    /\ 10 * TextLength(text_content(t, par, inner)) >= 6 * TextLength(text_content(t, par, outer))

Candidates(scored) == {scored[i].c : i \in 1..Len(scored)}

\* the candidates within score_threshold of the best score
Band(scored) ==
    IF scored = <<>> THEN {}
    ELSE {c \in Candidates(scored) :
            /\ scored[1].score - ScoreFor(scored, c) <= score_threshold
            /\ ScoreFor(scored, c) - scored[1].score <= score_threshold}

InnerAlwaysWins(t, par, scored, sel) ==
    \A outer \in Candidates(scored), inner \in Candidates(scored) :
        TieBreakPair(t, par, scored, outer, inner) => sel = inner

InnerWinsAlone(t, par, scored, sel) ==
    \A outer \in Candidates(scored), inner \in Candidates(scored) :
        (TieBreakPair(t, par, scored, outer, inner) /\ Band(scored) = {outer, inner})
            => sel = inner

\* C5 as stated: whenever the candidate set holds such a nested pair, the
\* selector returns the inner node, whatever other candidates are present.
C5_InnerAlwaysWins ==
    Chosen => InnerAlwaysWins(tree, parent, SortByScore(ScoredContainers(tree, parent, body)),
                              selected)

\* C5 amended: the selector returns the inner node of such a pair when the
\* two are the only candidates within 20 points of the best score.
C5_InnerWinsAlone ==
    Chosen => InnerWinsAlone(tree, parent, SortByScore(ScoredContainers(tree, parent, body)),
                             selected)

WinningPair(t, par, scored, sel) ==
    \E outer \in Candidates(scored) :
        TieBreakPair(t, par, scored, outer, sel) /\ Band(scored) = {outer, sel}

\* such a pair was the whole band and its inner node was returned
C5_Witness ==
    /\ pc = "returned"
    /\ result.status = "success"
    /\ WinningPair(tree, parent, SortByScore(ScoredContainers(tree, parent, body)), selected)

\* the id of e is present and holds no interference keyword
CleanId(e) == Get(e, "id") # "" /\ ~is_interference_identifier(Get(e, "id"))

\* C6: for every node with a clean id, generate_xpath returns exactly
\* //tag[@id='value'], whatever its class, attributes, position or children.
C6_CleanIdLocator ==
    (pc = "xpath_returned" /\ CleanId(tree[arg])) =>
        ret = "//" \o tree[arg].tag \o "[@id='" \o Get(tree[arg], "id") \o "']"

\* C7: for every successful extraction the returned locator, evaluated on
\* the input document as parsed before any cleaning, selects the node that was
\* chosen.
C7_RoundTrip ==
    (pc = "returned" /\ result.status = "success") =>
        selected \in XPathSelect(document_fromstring(input), result.xpath)

\* C8: for the body nav, article.content (h1 and 600 characters of prose),
\* footer, extraction selects the article, and unless a fault strikes returns
\* status success with a locator containing class='content'.
C8_Scenario ==
    input \in Scenario =>
        /\ Chosen => tree[selected].tag = "article"
        /\ (pc = "returned" /\ ~caught) =>
              /\ selected # 0
              /\ result.status = "success"
              /\ Contains(result.xpath, "class='content'")

\* the scenario document, extracted
C8_Witness == input \in Scenario /\ pc = "returned" /\ result.status = "success"

\* C9: on the empty string the extraction call returns the failed record; at
\* the service an empty or whitespace-only html_content is answered 400 and
\* the extraction call is never made.
C9_Degenerate ==
    /\ (input.kind = "text" /\ input.raw = "" /\ pc = "returned") => result = Failed
    /\ (input.kind = "text" /\ Strip(input.raw) = "") =>
          /\ ~http
          /\ pc = "responded" => response = 400 /\ result = NoResult /\ tree = <<>>

\* the extraction call on the empty string has returned
C9_Witness ==
    /\ input.kind = "text"
    /\ input.raw = ""
    /\ pc = "returned"
    /\ ~http
    /\ result = Failed

\* C10: for a node without a clean id and with a class attribute,
\* generate_xpath returns //tag[@class='<the class value as written>'].
C10_ClassLocator ==
    (pc = "xpath_returned" /\ ~CleanId(tree[arg]) /\ Get(tree[arg], "class") # "") =>
        ret = "//" \o tree[arg].tag \o "[@class='" \o Get(tree[arg], "class") \o "']"

\* the selection step of the extraction call has run without a fault
Selected == pc = "selected" \/ (pc = "returned" /\ ~caught)

\* C11: when no node qualifies for the candidate set the selector returns the
\* first div/section/article/main under the cleaned body in document order,
\* the cleaned body itself when the broad selector matches nothing, and in
\* every case a node of the cleaned body.
C11_EmptySetFallback ==
    Selected =>
        /\ selected \in {body} \cup Descendants(tree, parent, body)
        /\ ScoredContainers(tree, parent, body) = <<>> =>
              selected = FallbackOf(body, HasTag(tree, Descendants(tree, parent, body),
                                                 container_tags))

\* two containers, neither a candidate, and the first of them was returned
C11_Witness ==
    /\ pc = "selected"
    /\ ScoredContainers(tree, parent, body) = <<>>
    /\ Cardinality(HasTag(tree, Descendants(tree, parent, body), container_tags)) >= 2
    /\ tree[selected].tag \in container_tags

\* c is a direct child container of body in the parsed document that meets a
\* density-removal condition and carries no content-protection signal
DensityRemovable(c) ==
    /\ tree[c].par = body
    /\ tree[c].tag \in top_level_tags
    /\ IsLowQuality(tree, ParentMap(tree), c)
    /\ ~IsProtectedContainer(tree, ParentMap(tree), c)

\* C12 as stated: after the cleaning stage that precedes scoring no direct
\* child container of body is left that meets a density-removal condition
\* without a content-protection signal.
C12_DensityApplied ==
    (body # 0 /\ pc \in {"cleaned", "selected"}) =>
        \A c \in Nodes(tree) : DensityRemovable(c) => parent[c] # body

\* C12 amended: the cleaning stage that precedes scoring runs the semantic and
\* the top-level strong-signal rounds only, so a direct child container of
\* body that meets a density-removal condition stays unless it is a header,
\* footer or nav or a div with a strong header/footer signal; the density
\* pass called on the body leaves no such container without protection.
C12_DensityOutsidePipeline ==
    /\ (body # 0 /\ pc \in {"cleaned", "selected"}) =>
          \A c \in Nodes(tree) :
              (/\ DensityRemovable(c)
               /\ tree[c].tag \notin {"header", "footer", "nav"}
               /\ ~(tree[c].tag = "div" /\ IsStrongHeaderFooter(tree, parent, c)))
                  => parent[c] = body
    /\ pc = "density_returned" =>
          \A c \in Nodes(tree) : DensityRemovable(c) => parent[c] # body

\* the cleaning stage has run and left a container the density pass removes
C12_Witness ==
    /\ pc = "cleaned"
    /\ \E c \in Nodes(tree) : DensityRemovable(c) /\ parent[c] = body

\* n is an aside element or carries a landmark role
Landmark(n) ==
    tree[n].tag = "aside" \/ Get(tree[n], "role") \in {"navigation", "banner", "contentinfo"}

\* n is, or lies inside, an element one of the two page-level rounds removes
InsidePageLevel(n) ==
    \E a \in {n} \cup Ancestors(ParentMap(tree), n) :
        \/ tree[a].tag \in {"header", "footer", "nav"}
        \/ (tree[a].par = body /\ tree[a].tag = "div" /\ IsStrongHeaderFooter(tree, parent, a))

\* C13 as stated: after the cleaning stage that precedes scoring the tree
\* holds no aside, no element with role navigation, banner or contentinfo,
\* and no header, footer or nav.
C13_SemanticStrict ==
    (body # 0 /\ pc \in {"cleaned", "selected"}) =>
        \A n \in InDocument(tree, parent, body) :
            ~Landmark(n) /\ tree[n].tag \notin {"header", "footer", "nav"}

\* C13 amended: after the cleaning stage that precedes scoring the tree holds
\* no header, footer or nav element; aside elements and elements with role
\* navigation, banner or contentinfo are left in place unless they lie inside
\* an element the page-level rounds remove.
C13_SemanticTagsOnly ==
    (body # 0 /\ pc \in {"cleaned", "selected"}) =>
        /\ \A n \in InDocument(tree, parent, body) :
              tree[n].tag \notin {"header", "footer", "nav"}
        /\ \A n \in Nodes(tree) :
              (Landmark(n) /\ ~InsidePageLevel(n)) => n \in InDocument(tree, parent, body)

\* the cleaning stage has run and left an aside and a navigation landmark
C13_Witness ==
    /\ pc = "cleaned"
    /\ \E n \in InDocument(tree, parent, body) : tree[n].tag = "aside"
    /\ \E n \in InDocument(tree, parent, body) : Get(tree[n], "role") = "navigation"

\* keyword k occurs in s as a word: not inside a longer run of letters and digits
WordBounded(s, k) ==
    \E i \in 1..(Len(s) - Len(k) + 1) :
        /\ SubSeq(s, i, i + Len(k) - 1) = k
        /\ (i = 1 \/ SubSeq(s, i - 1, i - 1) \notin WordChars \ {"_"})
        /\ (i + Len(k) - 1 = Len(s) \/ SubSeq(s, i + Len(k), i + Len(k)) \notin WordChars \ {"_"})

\* the class or id of d holds a strong header/footer keyword as a word
StrongWord(d) ==
    \E k \in strong_header_indicators \cup strong_footer_indicators :
        \/ WordBounded(Lower(Get(tree[d], "class")), k)
        \/ WordBounded(Lower(Get(tree[d], "id")), k)

\* the text of d meets a keyword threshold of the strong-signal round
TextThreshold(d) ==
    \/ /\ CountIn(header_words, text_content(tree, parent, d)) >= 4
       /\ TextLength(text_content(tree, parent, d)) < 1000
    \/ /\ CountIn(footer_words, text_content(tree, parent, d)) >= 3
       /\ TextLength(text_content(tree, parent, d)) < 800

\* C14: the strong-signal round matches keywords on word boundaries: a direct
\* child div of body whose class and id hold a strong header/footer keyword
\* at most inside a longer word, and whose text meets no keyword threshold,
\* is not removed by the cleaning stage.
C14_WordBoundary ==
    (body # 0 /\ pc \in {"cleaned", "selected"}) =>
        \A d \in Nodes(tree) :
            (/\ tree[d].par = body
             /\ tree[d].tag = "div"
             /\ ~StrongWord(d)
             /\ ~TextThreshold(d))
                => parent[d] = body

\* outer and inner are nested members of the band, the inner scoring at least
\* 150 with under 60% of the outer's text
GuardedPair(t, par, scored, outer, inner) ==
    /\ outer \in Band(scored)
    /\ inner \in Band(scored)
    /\ outer \in Ancestors(par, inner)
    /\ ScoreFor(scored, inner) >= 150
    /\ 10 * TextLength(text_content(t, par, inner)) < 6 * TextLength(text_content(t, par, outer))

\* the (ancestor, descendant) pairs of the band
NestedPairs(par, scored) ==
    {pr \in Band(scored) \X Band(scored) : pr[1] \in Ancestors(par, pr[2])}

DescendantNeverWins(t, par, scored, sel) ==
    \A outer \in Candidates(scored), inner \in Candidates(scored) :
        GuardedPair(t, par, scored, outer, inner) => sel # inner

AncestorWinsAlone(t, par, scored, sel) ==
    \A outer \in Candidates(scored), inner \in Candidates(scored) :
        (GuardedPair(t, par, scored, outer, inner) /\ NestedPairs(par, scored) = {<<outer, inner>>})
            => sel = outer

\* C15 as stated: for every nested pair of the band whose descendant scores at
\* least 150 and has under 60% of the ancestor's text, the selector does not
\* return the descendant, bands of three or more nested members included.
C15_DescendantNeverWins ==
    Chosen => DescendantNeverWins(tree, parent, SortByScore(ScoredContainers(tree, parent, body)),
                                  selected)

\* C15 amended: when such a pair is the only nested pair of the band, the
\* selector returns its ancestor.
C15_AncestorWinsAlone ==
    Chosen => AncestorWinsAlone(tree, parent, SortByScore(ScoredContainers(tree, parent, body)),
                                selected)

GuardApplied(t, par, scored, sel) ==
    \E inner \in Candidates(scored) :
        GuardedPair(t, par, scored, sel, inner) /\ NestedPairs(par, scored) = {<<sel, inner>>}

\* the guard turned the selector from the only nested descendant to its ancestor
C15_Witness ==
    /\ pc = "returned"
    /\ result.status = "success"
    /\ GuardApplied(tree, parent, SortByScore(ScoredContainers(tree, parent, body)), selected)

\* the band has two or more members and none of its nested pairs has a
\* descendant scoring at least 150
NoQualifyingPair(par, scored) ==
    /\ Cardinality(Band(scored)) >= 2
    /\ \A pr \in NestedPairs(par, scored) : ScoreFor(scored, pr[2]) < 150

\* the number of ancestors of n
Depth(par, n) == Cardinality(Ancestors(par, n))

\* sel is the first member of maximal depth in descending score order
DeepestFirst(par, scored, sel) ==
    /\ sel \in Band(scored)
    /\ \A m \in Band(scored) :
          /\ Depth(par, m) <= Depth(par, sel)
          /\ Depth(par, m) = Depth(par, sel) => ScoreIn(scored, sel) <= ScoreIn(scored, m)

DeepestWins(par, scored, sel) == NoQualifyingPair(par, scored) => DeepestFirst(par, scored, sel)

\* C16: when the band has two or more members and no nested pair in it has a
\* descendant scoring at least 150, the selector returns the band member of
\* maximal depth, the first of them in descending score order on a tie.
C16_DeepestWins ==
    Chosen => DeepestWins(parent, SortByScore(ScoredContainers(tree, parent, body)), selected)

DeepestUnguarded(t, par, scored, sel) ==
    /\ NoQualifyingPair(par, scored)
    /\ \E outer \in Band(scored) :
          /\ outer \in Ancestors(par, sel)
          /\ 10 * TextLength(text_content(t, par, sel)) < 6 * TextLength(text_content(t, par, outer))

\* the deepest member was returned although it has under 60% of the text of
\* its ancestor in the band
C16_Witness ==
    /\ pc = "returned"
    /\ result.status = "success"
    /\ DeepestUnguarded(tree, parent, SortByScore(ScoredContainers(tree, parent, body)), selected)

\* the containers under the cleaned body that are flagged as protected
ProtectedContainers(t, par, b) ==
    {c \in HasTag(t, Descendants(t, par, b), container_tags) : is_protected(t, par, c)}

\* c is ranked with its computed score, raised to 50 when below
RankedFloored(scored, c, computed) ==
    /\ c \in Candidates(scored)
    /\ ScoreFor(scored, c) = IF computed < 50 THEN 50 ELSE computed

\* another candidate scores more than 20 above c
Outscored(scored, c) ==
    \E o \in Candidates(scored) : o # c /\ ScoreFor(scored, o) > ScoreFor(scored, c) + 20

ProtectedRule(t, par, scored, sel, c) ==
    /\ RankedFloored(scored, c, calculate_content_container_score(t, par, c))
    /\ Outscored(scored, c) => sel # c

\* C17: a protected candidate is ranked with max(computed score, 50), and is
\* not returned whenever another candidate's score exceeds that by more than 20.
C17_ProtectedFloor ==
    Chosen =>
        \A c \in ProtectedContainers(tree, parent, body) :
            ProtectedRule(tree, parent, SortByScore(ScoredContainers(tree, parent, body)),
                          selected, c)

FlooredAndOutscored(t, par, scored, c) ==
    /\ calculate_content_container_score(t, par, c) < -100
    /\ ScoreFor(scored, c) = 50
    /\ Outscored(scored, c)

\* a protected container with a computed score below -100 was ranked at 50
\* and another container, scoring more than 70, was returned
C17_Witness ==
    /\ pc = "returned"
    /\ result.status = "success"
    /\ \E c \in ProtectedContainers(tree, parent, body) :
          /\ selected # c
          /\ FlooredAndOutscored(tree, parent,
                                 SortByScore(ScoredContainers(tree, parent, body)), c)

\* the score helper has returned for a node that is no header, footer, nav or aside
Scored == pc = "score_returned" /\ Lower(tree[arg].tag) \notin chrome_tags

\* steps 4 to 9 of the scorer
Positives(t, par, c) ==
    LengthBonus(TextLength(text_content(t, par, c))) + RoleBonus(Lower(Get(t[c], "role")))
        + PatternBonus(text_content(t, par, c))
        + PositiveBonus(Lower(Get(t[c], "class")), Lower(Get(t[c], "id")))
        + StructureBonus(t, par, c) + ImageBonus(t, par, c)

\* the score of c given k interference keywords and the vocabulary penalty
ExpectedScore(t, par, c, k, penalty) ==
    IF k >= 2 THEN 0 - 200 * k
    ELSE IF penalty - 200 * k < -200 THEN penalty - 200 * k
    ELSE penalty - 200 * k + Positives(t, par, c)

\* k occurs in s between string start/end, whitespace, '-' or '_'
Delimited(s, k) ==
    \E i \in 1..(Len(s) - Len(k) + 1) :
        /\ SubSeq(s, i, i + Len(k) - 1) = k
        /\ (i = 1 \/ SubSeq(s, i - 1, i - 1) \in {" ", "\t", "\n", "-", "_"})
        /\ (i + Len(k) - 1 = Len(s)
               \/ SubSeq(s, i + Len(k), i + Len(k)) \in {" ", "\t", "\n", "-", "_"})

DelimitedCount(e) ==
    Cardinality({k \in strong_interference_keywords :
                    \/ Delimited(Lower(Get(e, "class")), k)
                    \/ Delimited(Lower(Get(e, "id")), k)})

\* C18: every distinct strong interference keyword that occurs in the class or
\* id between string start/end, whitespace, '-' or '_' subtracts 200, and with
\* two or more of them the score is exactly -200 times their number.
C18_DelimitedKeywords ==
    Scored =>
        score_ret = ExpectedScore(tree, parent, arg, DelimitedCount(tree[arg]),
                            ContentPenalty(text_content(tree, parent, arg)))

\* what a vocabulary with n keywords found contributes
VocabularyPenalty(n) == IF n >= 3 THEN -300 ELSE IF n = 2 THEN -150 ELSE 0

\* the text says "you are here"
Positioned(txt) == \E ph \in position_phrases : KeywordIn(txt, ph)

\* the node scored has fewer than two interference keywords
FewInterference ==
    interference_count(Lower(Get(tree[arg], "class")), Lower(Get(tree[arg], "id"))) < 2

StepThree(t, par, c, header_count, footer_count) ==
    ExpectedScore(t, par, c,
                  interference_count(Lower(Get(t[c], "class")), Lower(Get(t[c], "id"))),
                  VocabularyPenalty(header_count) + VocabularyPenalty(footer_count))

\* C19 as stated: for every non-chrome node with fewer than two interference
\* keywords the header vocabulary contributes -300 for three or more keywords
\* in the text and -150 for two, the footer vocabulary the same, additively,
\* and steps 4 to 9 are skipped exactly when the score is then below -200.
C19_VocabularyPenalty ==
    (Scored /\ FewInterference) =>
        score_ret = StepThree(tree, parent, arg,
                              CountIn(header_words, text_content(tree, parent, arg)),
                              CountIn(footer_words, text_content(tree, parent, arg)))

\* C19 amended: the same, except that the header vocabulary contributes
\* nothing when the text contains one of the two "you are here" phrases.
C19_VocabularyPenaltyExempt ==
    (Scored /\ FewInterference) =>
        score_ret = StepThree(tree, parent, arg,
                              IF Positioned(text_content(tree, parent, arg)) THEN 0
                              ELSE CountIn(header_words, text_content(tree, parent, arg)),
                              CountIn(footer_words, text_content(tree, parent, arg)))

\* a container with three header keywords behind a "you are here" phrase was
\* scored without a penalty
C19_Witness ==
    /\ Scored
    /\ FewInterference
    /\ tree[arg].tag \in container_tags
    /\ Positioned(text_content(tree, parent, arg))
    /\ CountIn(header_words, text_content(tree, parent, arg)) >= 3
    /\ score_ret > 0

\* the weights of the content patterns found in the text, each counted once
PatternTotal(txt) ==
    SumSeq([p \in 1..8 |-> IF PatternIn(txt, p) THEN content_weight[p] ELSE 0])

PositiveMatches(e) ==
    Cardinality({k \in positive_keywords :
                   Contains(Lower(Get(e, "class")), k) \/ Contains(Lower(Get(e, "id")), k)})

StructuralCount(t, par, c) ==
    Cardinality(HasTag(t, Descendants(t, par, c),
                       {"p", "h1", "h2", "h3", "h4", "h5", "h6", "li", "table", "section"})
                \cup {d \in HasTag(t, Descendants(t, par, c), {"div"}) :
                        Contains(Get(t[d], "class"), "content")})

ImageCount(t, par, c) == Cardinality(HasTag(t, Descendants(t, par, c), {"img"}))

\* the four capped bonuses of a node
CappedBonuses(pattern_total, positive_matches, structural, images) ==
    Min(pattern_total, 120) + Min(20 * positive_matches, 60)
    + (IF structural > 5 THEN Min(2 * structural, 40) ELSE 0)
    + Min(3 * images, 150)

\* the score of a node whose positive signals are applied, from its score
\* after the penalties
CappedScore(t, par, c, penalised) ==
    penalised + LengthBonus(TextLength(text_content(t, par, c)))
    + RoleBonus(Lower(Get(t[c], "role")))
    + CappedBonuses(PatternTotal(text_content(t, par, c)), PositiveMatches(t[c]),
                    StructuralCount(t, par, c), ImageCount(t, par, c))

\* the score after the interference and vocabulary penalties
Penalised(t, par, c) ==
    ContentPenalty(text_content(t, par, c))
    - 200 * interference_count(Lower(Get(t[c], "class")), Lower(Get(t[c], "id")))

\* the positive signals were applied to the node scored
PositivesApplied ==
    /\ Scored
    /\ FewInterference
    /\ Penalised(tree, parent, arg) >= -200

\* C20: every pattern found adds its weight once and the pattern total is
\* capped at 120, the positive-identifier bonus at 60, structural richness at
\* 40 (0 unless more than 5 structural descendants), media at 150; no node
\* scores above 570.
C20_BonusCaps ==
    /\ pc = "score_returned" => score_ret <= 570
    /\ PositivesApplied =>
           score_ret = CappedScore(tree, parent, arg, Penalised(tree, parent, arg))

\* a node on which every cap binds was scored 570
C20_Witness ==
    /\ PositivesApplied
    /\ PatternTotal(text_content(tree, parent, arg)) > 120
    /\ PositiveMatches(tree[arg]) > 3
    /\ StructuralCount(tree, parent, arg) > 20
    /\ ImageCount(tree, parent, arg) > 50
    /\ score_ret = 570

\* every node of b's tree after the step was in it before with the same
\* parent, and b hangs where it hung
OnlyDetached(t, b, before, after) ==
    /\ \A n \in InDocument(t, after, b) :
          n \in InDocument(t, before, b) /\ after[n] = before[n]
    /\ RootOf(after, b) = RootOf(before, b)

\* C21: the cleaning stage only detaches subtrees: a node in the tree after it
\* was in the tree before it under the same parent (siblings keep their
\* document order, nodes are never renumbered), the body is not removed, and
\* the selection and emission steps that follow remove no node.
C21_DetachOnly ==
    [][/\ (pc = "parsed" /\ pc' = "cleaned") => OnlyDetached(tree, body', parent, parent')
       /\ pc \in {"cleaned", "selected"} => (parent' = parent /\ tree' = tree)]_vars

\* the containers under the body that are left out of the ranking
Unranked(t, par, b) ==
    HasTag(t, Descendants(t, par, b), container_tags)
    \ Candidates(ScoredContainers(t, par, b))

\* cleaning detached a subtree next to a surviving sibling, and a container
\* left out of the ranking is still in the tree when the call returns
C21_Witness ==
    /\ pc = "returned"
    /\ result.status = "success"
    /\ \E n \in Nodes(tree) :
          /\ parent[n] = 0
          /\ tree[n].par = body
          /\ Descendants(tree, parent, n) # {}
          /\ \E m \in ChildrenOf(tree, parent, body) : tree[m].par = tree[n].par
    /\ Unranked(tree, parent, body) # {}

\* the loop of the walk moved to the parent in this step
WalkMoved == walk.pc = "walking" /\ walk'.level = walk.level + 1

\* the two conditions named for a move: the parent scores more than 15 above
\* the container, or within 3 of it with between max_items and twice
\* max_items list items
ClearlyBetter(parent_score, current_score, parent_items, max_items) ==
    \/ parent_score > current_score + 15
    \/ /\ parent_score >= current_score - 3
       /\ parent_score <= current_score + 3
       /\ parent_items >= max_items
       /\ parent_items <= 2 * max_items

\* the conditions of a move: a positive parent more than 15 above, or a
\* parent above 5 and no more than 3 below with a bounded item count, or a
\* positive parent of a container with under 4 items, with at most 15 items
UpgradeRule(parent_score, current_score, parent_items, max_items) ==
    \/ (parent_score > current_score + 15 /\ parent_score > 10)
    \/ /\ parent_score >= current_score - 3
       /\ parent_score > 5
       /\ parent_items >= max_items
       /\ parent_items <= 2 * max_items
    \/ /\ max_items < 4
       /\ parent_score > 0
       /\ parent_items >= max_items
       /\ parent_items <= 15

Idle == {drivers[i] : i \in 1..Len(drivers)}

\* the number of drivers held by clients
HeldCount == SumSeq([c \in Clients |-> Cardinality(holding[c])])

\* only get_driver and return_driver have been called on the pool
ClientsOnly == closer.pc = "idle"

\* C23: while clients only get drivers and return drivers they hold, idle
\* plus held drivers number pool_size, the queue never holds more than
\* pool_size, and no driver is held by two clients, or held and idle, at once.
C23_Conservation ==
    ClientsOnly =>
        /\ Len(drivers) + HeldCount = pool_size
        /\ Len(drivers) <= pool_size
        /\ Cardinality(Idle) = Len(drivers)
        /\ \A c \in Clients : holding[c] \cap Idle = {}
        /\ \A c \in Clients, e \in Clients : c # e => holding[c] \cap holding[e] = {}

\* every driver is held, every client holds one, the first client the last
\* driver of the queue, and a get_driver call waits on the empty queue
C23_Witness ==
    /\ ClientsOnly
    /\ drivers = <<>>
    /\ \A c \in Clients : holding[c] # {}
    /\ holding[1] = {pool_size}
    /\ \E c \in Clients : client_pc[c] = "blocked"

\* client c is inside get_driver, waiting on the empty queue
Blocked(c) == client_pc[c] = "blocked"

\* a get_driver call on an empty queue stays in the call, without a driver
StaysBlocked ==
    [][\A c \in Clients :
          (client_pc[c] \in {"get", "blocked"} /\ drivers = <<>>) =>
              (client_pc'[c] \in {"get", "blocked"} /\ holding'[c] = holding[c])]_vars

\* return_driver can always be completed by a client that holds a driver
ReturnNeverBlocks ==
    [](\A c \in Clients :
          (client_pc[c] = "idle" /\ holding[c] # {}) => ENABLED ReturnDriver(c))

\* C24 as stated: get_driver on an empty queue blocks, return_driver never
\* blocks, and every blocked get_driver call returns a driver once a driver
\* has been returned.
C24_BlockedCallReturns ==
    /\ StaysBlocked
    /\ ReturnNeverBlocks
    /\ \A c \in Clients :
          (Blocked(c) /\ drivers # <<>> /\ ClientsOnly)
              ~> (client_pc[c] = "idle" \/ ~ClientsOnly)

\* C24 amended: get_driver on an empty queue blocks, return_driver never
\* blocks, and a driver returned while a call is blocked is eventually handed
\* to some get_driver call, not necessarily that one.
C24_ReturnedDriverTaken ==
    /\ StaysBlocked
    /\ ReturnNeverBlocks
    /\ \A d \in 1..pool_size :
          ((\E c \in Clients : Blocked(c)) /\ drivers # <<>> /\ Head(drivers) = d /\ ClientsOnly)
              ~> ((\E c \in Clients : d \in holding[c]) \/ ~ClientsOnly)

\* a driver has been returned while a get_driver call was blocked
C24_Witness ==
    /\ ClientsOnly
    /\ drivers # <<>>
    /\ \E c \in Clients : Blocked(c)

\* close_all has ended and no client thread has used the pool since its call
TornDownAlone == closer.pc \in {"done", "raised"} /\ closer.alone

\* C25: when no other thread uses the pool, close_all calls quit on every
\* driver that was idle when it was called, goes on after a quit that raises,
\* lets no exception out, and returns with the queue empty.
C25_BestEffortTeardown ==
    TornDownAlone =>
        /\ closer.pc = "done"
        /\ closer.idle_at_call \subseteq quit_called
        /\ drivers = <<>>

\* close_all returned after a quit that raised, with every driver of the full
\* queue torn down
C25_Witness ==
    /\ TornDownAlone
    /\ closer.quit_raised
    /\ closer.idle_at_call = 1..pool_size
    /\ quit_called = 1..pool_size

\* close_all waits in get on the empty queue while every client thread waits
\* in get_driver: no thread is left to put a driver
StuckForever ==
    /\ closer.pc = "get"
    /\ drivers = <<>>
    /\ \A c \in Clients : Blocked(c)

\* C30: with clients calling get_driver and return_driver concurrently,
\* close_all never blocks forever on the queue, and once it has returned quit
\* has been called on every driver the pool created, those held by clients
\* included.
C30_TeardownComplete ==
    /\ ~StuckForever
    /\ closer.pc = "done" => quit_called = 1..pool_size

\* C26: whenever the selector returned a node and nothing raised, the call
\* returns status success with a non-empty locator, whether or not the node
\* has child elements.
C26_SuccessForEveryNode ==
    (pc = "returned" /\ ~caught /\ selected # 0) =>
        /\ result.status = "success"
        /\ result.xpath \notin {"", None}

\* the selector has just returned: the state Select leaves, for a node with
\* child elements and for one without
SelectorReturned ==
    /\ selected # 0
    /\ \/ pc = "selected"
       \/ (pc = "returned" /\ ~Truthy(tree, parent, selected))

\* c is ranked as a protected container, or for a computed score above -50
Admitted(scored, c, computed, protected) ==
    \/ (protected /\ ScoreFor(scored, c) >= 50)
    \/ (computed > -50 /\ ScoreFor(scored, c) = computed)

BandRule(t, par, scored, sel) ==
    /\ scored # <<>> => sel \in Band(scored)
    /\ \A c \in Candidates(scored) :
          Admitted(scored, c, calculate_content_container_score(t, par, c), is_protected(t, par, c))
    /\ \/ scored = <<>>
       \/ is_protected(t, par, sel)
       \/ calculate_content_container_score(t, par, sel) > -50

\* C27: when the candidate set is not empty the selector returns a candidate
\* whose ranked score is within 20 of the best; every candidate is protected
\* and ranked at 50 or more, or has a computed score above -50; a node with a
\* computed score of -50 or less is returned only as a protected candidate or
\* by the fallback for an empty candidate set.
C27_BandInvariant ==
    SelectorReturned =>
        BandRule(tree, parent, SortByScore(ScoredContainers(tree, parent, body)), selected)

BandExcludes(t, par, scored, sel) ==
    /\ sel \in Band(scored)
    /\ Candidates(scored) \ Band(scored) # {}
    /\ \E c \in Candidates(scored) : calculate_content_container_score(t, par, c) <= -50

\* the selector returned a member of the band while a candidate outside the
\* band and a protected candidate computed at -50 or less were ranked
C27_Witness ==
    /\ pc = "selected"
    /\ BandExcludes(tree, parent, SortByScore(ScoredContainers(tree, parent, body)), selected)

\* what find_article_container returns for the document parsed into t
find_article_container(t, root) ==
    find_main_content_in_cleaned_html(
        t, remove_page_level_header_footer(t, ParentMap(t), BodyOf(t, ParentMap(t), root)),
        BodyOf(t, ParentMap(t), root))

\* C28: for every parsed document find_list_container returns the node
\* find_article_container returns, and never goes on to the list selectors.
C28_ListIsArticle ==
    pc \in {"list_returned", "list_grouping"} =>
        /\ pc = "list_returned"
        /\ selected = find_article_container(tree, page_tree)

\* find_list_container returned an article container that holds only text
C28_Witness ==
    /\ pc = "list_returned"
    /\ selected # 0
    /\ ~Truthy(tree, parent, selected)
    /\ tree[selected].tag \in container_tags

\* e has a locator of its own: a clean id, a class, or a clean stable attribute
OwnLocator(e) ==
    \/ (Get(e, "id") # "" /\ ~is_interference_identifier(Get(e, "id")))
    \/ Get(e, "class") # ""
    \/ \E i \in 1..Len(stable_attributes) :
          /\ Get(e, stable_attributes[i]) # ""
          /\ ~is_interference_identifier(Get(e, stable_attributes[i]))

\* the id locator of e, or its class locator when its id is not clean
AttributeLocator(e) ==
    IF Get(e, "id") # "" /\ ~is_interference_identifier(Get(e, "id"))
    THEN "//" \o e.tag \o "[@id='" \o Get(e, "id") \o "']"
    ELSE "//" \o e.tag \o "[@class='" \o Get(e, "class") \o "']"

RECURSIVE Recursions(_, _, _)
\* the number of nested generate_xpath calls the call for el makes
Recursions(t, par, el) ==
    IF ~Truthy(t, par, el) \/ OwnLocator(t[el]) THEN 0
    ELSE IF find_closest_clean_identifier(t, par, el) = 0 THEN 0
    ELSE 1 + Recursions(t, par, find_closest_clean_identifier(t, par, el))

\* el and its ancestors below top (below the document when top is 0), html left out
Levels(t, par, top, el) ==
    {n \in ({el} \cup Ancestors(par, el)) \ (IF top = 0 THEN {} ELSE {top} \cup Ancestors(par, top)) :
        t[n].tag # "html"}

RECURSIVE StepsDown(_, _, _)
\* one /tag[index] step for each node of S, from the outermost down
StepsDown(t, par, S) ==
    IF S = {} THEN ""
    ELSE LET n == CHOOSE m \in S : \A k \in S : m <= k
         IN  "/" \o Step(t, par, n) \o StepsDown(t, par, S \ {n})

\* the locator of el relative to ancestor anc, or the positional one when anc is 0
PathFrom(t, par, anc, el) ==
    IF anc = 0
    THEN (IF Levels(t, par, 0, el) = {} THEN "/" ELSE StepsDown(t, par, Levels(t, par, 0, el)))
    ELSE AttributeLocator(t[anc]) \o StepsDown(t, par, Levels(t, par, anc, el))

\* generate_xpath was called on an element with children and no locator of its own
Walked == pc = "xpath_returned" /\ Truthy(tree, parent, arg) /\ ~OwnLocator(tree[arg])

\* C29: generate_xpath recurses at most once, on the nearest ancestor with a
\* clean id or class token, which gets an attribute locator; the result is
\* that locator followed by one tag[index] step per level from the ancestor
\* down to the target, or, with no such ancestor, one step per level from
\* below html down to the target.
C29_AncestorRelative ==
    /\ pc = "xpath_returned" => Recursions(tree, parent, arg) <= 1
    /\ Walked => ret = PathFrom(tree, parent, find_closest_clean_identifier(tree, parent, arg), arg)

\* a locator of two steps below an ancestor with a clean identifier was returned
C29_Witness ==
    /\ Walked
    /\ find_closest_clean_identifier(tree, parent, arg) # 0
    /\ Recursions(tree, parent, arg) = 1
    /\ Cardinality(Levels(tree, parent, find_closest_clean_identifier(tree, parent, arg), arg)) = 2

====
